---- MODULE Spec2Model ----
(***************************************************************************)
(* Model of the Nix file parser/updater of nixpkgs-updater                 *)
(* (src/src/nix-file-parser.ts).  A text is a sequence of one-character    *)
(* strings; the regular expressions of the source are evaluated character  *)
(* by character with the semantics of the JavaScript regex engine.         *)
(***************************************************************************)
EXTENDS Integers, Sequences, FiniteSets

VARIABLES
  pc,            \* position of the harness: which call comes next
  content,       \* the Nix file text handed to parseNixFile / updateNixFile
  updates,       \* NixUpdateData {version, rev, hash}
  options,       \* UpdateOptions {skipRevUpdate}
  nixData,       \* result of parseNixFile(content)
  updated,       \* result of updateNixFile(content, updates, options)
  reparsed,      \* result of parseNixFile(updated)
  updatedTwice,  \* result of updateNixFile(updated, updates, options)
  ident,         \* string handed to an identifier validator
  identResult,   \* outcome of validateGitHubOwner(ident)
  run,           \* one invocation of the action: inputs, progress, effects
  prefetch       \* one call of fetchHash: what the commands did, its outcome

vars == <<pc, content, updates, options, nixData, updated, reparsed,
          updatedTwice, ident, identResult, run, prefetch>>

\* a call that has not been made yet
NotRun == [done |-> FALSE]
\* the action has not been invoked
NoRun == [started |-> FALSE]
\* fetchHash has not been called
NoPrefetch == [called |-> FALSE]
\* the value a finished call returned
Returned(v) == [done |-> TRUE, value |-> v]
\* the value a finished updateNixFile returned, with the text its hash step
\* started from
ReturnedUpdate(st) == [done |-> TRUE, value |-> st.result, afterRev |-> st.afterRev]

(***************************************************************************)
(* Characters                                                              *)
(***************************************************************************)
Lower == {"a","b","c","d","e","f","g","h","i","j","k","l","m",
          "n","o","p","q","r","s","t","u","v","w","x","y","z"}
Upper == {"A","B","C","D","E","F","G","H","I","J","K","L","M",
          "N","O","P","Q","R","S","T","U","V","W","X","Y","Z"}
Digit == {"0","1","2","3","4","5","6","7","8","9"}

\* [a-zA-Z0-9]
IsAlnum(c) == c \in Lower \cup Upper \cup Digit
\* \w
IsWordChar(c) == IsAlnum(c) \/ c = "_"
\* \s
IsSpace(c) == c \in {" ", "\t", "\n", "\r"}

\* the field names, spelled out
n_owner      == <<"o","w","n","e","r">>
n_repo       == <<"r","e","p","o">>
n_version    == <<"v","e","r","s","i","o","n">>
n_rev        == <<"r","e","v">>
n_hash       == <<"h","a","s","h">>
n_sha256     == <<"s","h","a","2","5","6">>
n_vendorHash == <<"v","e","n","d","o","r","H","a","s","h">>

(***************************************************************************)
(* Regular expression matching                                             *)
(***************************************************************************)
NoMatch == [found |-> FALSE]

\* the literal lit occurs in s at position i
HasAt(s, i, lit) ==
  /\ i + Len(lit) - 1 <= Len(s)
  /\ \A k \in 1..Len(lit) : s[i + k - 1] = lit[k]

\* \b at the position between s[i-1] and s[i]
WordBoundaryAt(s, i) ==
  LET before == i > 1 /\ IsWordChar(s[i - 1])
      after  == i <= Len(s) /\ IsWordChar(s[i])
  IN  before # after

\* \s* from position i: the position of the first character that is not
\* white space (Len(s)+1 at the end of the text)
RECURSIVE SkipSpaces(_, _)
SkipSpaces(s, i) ==
  IF i <= Len(s) /\ IsSpace(s[i]) THEN SkipSpaces(s, i + 1) ELSE i

\* [^"]* from position i: the position of the next double quote, 0 if none
RECURSIVE NextQuote(_, _)
NextQuote(s, i) ==
  IF i > Len(s) THEN 0
  ELSE IF s[i] = "\"" THEN i
  ELSE NextQuote(s, i + 1)

\* one attempt of  NAME\s*=\s*"([^"]+)"  at position i, preceded by \b when
\* wb is set.  nameGroup is the text of (NAME); valStart..valEnd is the
\* ([^"]+) group, quoteAt the opening quote, end the closing quote.
AssignMatchAt(s, i, name, wb) ==
  IF ~((wb => WordBoundaryAt(s, i)) /\ HasAt(s, i, name)) THEN NoMatch
  ELSE LET e == SkipSpaces(s, i + Len(name)) IN
    IF ~(e <= Len(s) /\ s[e] = "=") THEN NoMatch
    ELSE LET q == SkipSpaces(s, e + 1) IN
      IF ~(q <= Len(s) /\ s[q] = "\"") THEN NoMatch
      ELSE LET c == NextQuote(s, q + 1) IN
        IF c = 0 \/ c = q + 1 THEN NoMatch
        ELSE [found |-> TRUE, index |-> i, nameGroup |-> name,
              quoteAt |-> q, valStart |-> q + 1, valEnd |-> c - 1,
              end |-> c]

\* a pattern is a list of alternative names and the \b flag:
\* /\b(n1|n2)\s*=\s*"([^"]+)"/
Pattern(names, wb) == [names |-> names, wb |-> wb]

\* one attempt of the pattern at position i: alternatives in order
RECURSIVE AltMatchAt(_, _, _, _, _)
AltMatchAt(s, i, names, k, wb) ==
  IF k > Len(names) THEN NoMatch
  ELSE LET m == AssignMatchAt(s, i, names[k], wb) IN
       IF m.found THEN m ELSE AltMatchAt(s, i, names, k + 1, wb)

\* RegExp exec: the leftmost position at which the pattern matches
RECURSIVE ExecFrom(_, _, _)
ExecFrom(s, p, i) ==
  IF i > Len(s) THEN NoMatch
  ELSE LET m == AltMatchAt(s, i, p.names, 1, p.wb) IN
       IF m.found THEN m ELSE ExecFrom(s, p, i + 1)

Exec(s, p) == ExecFrom(s, p, 1)

\* the text of a span
Span(s, a, b) == SubSeq(s, a, b)

\* s contains the literal lit (String.prototype.includes)
Includes(s, lit) == \E i \in 1..Len(s) : HasAt(s, i, lit)

\* s ends with the literal lit (String.prototype.endsWith)
EndsWith(s, lit) == Len(s) >= Len(lit) /\ HasAt(s, Len(s) - Len(lit) + 1, lit)

(***************************************************************************)
(* PATTERNS                                                                *)
(***************************************************************************)
\* the patterns without the word boundary
PATTERNS_noBoundary == [
  owner   |-> Pattern(<<n_owner>>, FALSE),
  repo    |-> Pattern(<<n_repo>>, FALSE),
  version |-> Pattern(<<n_version>>, FALSE),
  rev     |-> Pattern(<<n_rev>>, FALSE),
  hash    |-> Pattern(<<n_hash, n_sha256>>, FALSE) ]

PATTERNS == [
  owner   |-> Pattern(<<n_owner>>, TRUE),
  repo    |-> Pattern(<<n_repo>>, TRUE),
  version |-> Pattern(<<n_version>>, TRUE),
  rev     |-> Pattern(<<n_rev>>, TRUE),
  hash    |-> Pattern(<<n_hash, n_sha256>>, TRUE) ]

\* a line of a multiline regex starts at 1 and after a line terminator
IsLineStart(s, p) == p = 1 \/ s[p - 1] \in {"\n", "\r"}

\* the vendorHash test without the exclusion of comments
VendorHashTest_anywhere(s) ==
  \E j \in 1..Len(s) :
    /\ WordBoundaryAt(s, j)
    /\ HasAt(s, j, n_vendorHash)
    /\ LET e == SkipSpaces(s, j + Len(n_vendorHash))
       IN  e <= Len(s) /\ s[e] = "="

\* PATTERNS.vendorHash.test(s):  /^[^#\n]*\bvendorHash\s*=/m
VendorHashTest(s) ==
  \E p \in 1..Len(s) :
    /\ IsLineStart(s, p)
    /\ \E j \in p..Len(s) :
         /\ \A k \in p..(j - 1) : s[k] \notin {"#", "\n"}
         /\ WordBoundaryAt(s, j)
         /\ HasAt(s, j, n_vendorHash)
         /\ LET e == SkipSpaces(s, j + Len(n_vendorHash))
            IN  e <= Len(s) /\ s[e] = "="

(***************************************************************************)
(* Identifier validators                                                   *)
(***************************************************************************)
\* a repetition bound that is one too large: {0,38} for {0,37}
OwnerMiddleMax_plusOne == 37 + 1

OwnerMiddleMax == 37

\* a length limit that is one too large
RepoMaxLen_plusOne == 100 + 1

RepoMaxLen == 100

\* ownerPattern.test(owner):
\* /^[a-zA-Z0-9](?:[a-zA-Z0-9-]{0,37}[a-zA-Z0-9])?$/
ownerPattern(owner) ==
  /\ Len(owner) >= 1
  /\ IsAlnum(owner[1])
  /\ \/ Len(owner) = 1
     \/ \E k \in 0..OwnerMiddleMax :
          /\ Len(owner) = k + 2
          /\ \A i \in 2..(k + 1) : IsAlnum(owner[i]) \/ owner[i] = "-"
          /\ IsAlnum(owner[k + 2])

\* repoPattern.test(repo):  /^[a-zA-Z0-9._-]+$/
repoPattern(repo) ==
  /\ Len(repo) >= 1
  /\ \A i \in 1..Len(repo) : IsAlnum(repo[i]) \/ repo[i] \in {".", "_", "-"}

\* an owner validator that lets every string pass
validateGitHubOwner_skipped(owner) == TRUE

\* TRUE when validateGitHubOwner returns, FALSE when it throws
validateGitHubOwner(owner) == ownerPattern(owner)

\* TRUE when validateGitHubRepo returns, FALSE when it throws
validateGitHubRepo(repo) ==
  ~(~repoPattern(repo) \/ EndsWith(repo, <<".","g","i","t">>)
      \/ Len(repo) > RepoMaxLen)

(***************************************************************************)
(* parseNixFile                                                            *)
(***************************************************************************)
\* a thrown Error: kind is the message template, what the field it names
Throw(kind, what) == [ok |-> FALSE, error |-> [kind |-> kind, what |-> what]]

\* extractValue without the check for a failed match
extractValue_unchecked(s, pattern, name) ==
  LET match == Exec(s, pattern) IN
  IF ~match.found THEN [ok |-> TRUE, value |-> <<>>]
  ELSE [ok |-> TRUE, value |-> Span(s, match.valStart, match.valEnd)]

\* extractValue(content, pattern, name, groupIndex): the captured value, or
\* the error 'Could not find <name> in Nix file'.  The value group of every
\* pattern is the ([^"]+) group.
extractValue(s, pattern, name) ==
  LET match == Exec(s, pattern) IN
  IF ~match.found THEN Throw("CouldNotFind", name)
  ELSE [ok |-> TRUE, value |-> Span(s, match.valStart, match.valEnd)]

\* the interpolation with the prefix of the usual literal
VersionRef_prefixed == <<"v","$","{","v","e","r","s","i","o","n","}">>

VersionRef == <<"$","{","v","e","r","s","i","o","n","}">>

\* parseNixFile looking the version up before the rev
parseNixFile_versionFirst(s) ==
  LET owner == extractValue(s, PATTERNS.owner, "owner") IN
  IF ~owner.ok THEN owner ELSE
  LET repo == extractValue(s, PATTERNS.repo, "repo") IN
  IF ~repo.ok THEN repo ELSE
  IF ~validateGitHubOwner(owner.value)
    THEN Throw("InvalidGitHubOwner", "owner") ELSE
  IF ~validateGitHubRepo(repo.value)
    THEN Throw("InvalidGitHubRepo", "repo") ELSE
  LET version == extractValue(s, PATTERNS.version, "version") IN
  IF ~version.ok THEN version ELSE
  LET rev == extractValue(s, PATTERNS.rev, "rev") IN
  IF ~rev.ok THEN rev ELSE
  LET revUsesVersion == Includes(rev.value, VersionRef)
      hasVendorHash  == VendorHashTest(s)
  IN
  LET hash == extractValue(s, PATTERNS.hash, "hash or sha256") IN
  IF ~hash.ok THEN hash ELSE
  [ok |-> TRUE, owner |-> owner.value, repo |-> repo.value,
   version |-> version.value, rev |-> rev.value, hash |-> hash.value,
   revUsesVersion |-> revUsesVersion, hasVendorHash |-> hasVendorHash]

parseNixFile(s) ==
  LET owner == extractValue(s, PATTERNS.owner, "owner") IN
  IF ~owner.ok THEN owner ELSE
  LET repo == extractValue(s, PATTERNS.repo, "repo") IN
  IF ~repo.ok THEN repo ELSE
  IF ~validateGitHubOwner(owner.value)
    THEN Throw("InvalidGitHubOwner", "owner") ELSE
  IF ~validateGitHubRepo(repo.value)
    THEN Throw("InvalidGitHubRepo", "repo") ELSE
  LET rev == extractValue(s, PATTERNS.rev, "rev") IN
  IF ~rev.ok THEN rev ELSE
  LET revUsesVersion == Includes(rev.value, VersionRef)
      hasVendorHash  == VendorHashTest(s)
      version        == extractValue(s, PATTERNS.version, "version")
  IN
  IF ~version.ok THEN version ELSE
  LET hash == extractValue(s, PATTERNS.hash, "hash or sha256") IN
  IF ~hash.ok THEN hash ELSE
  [ok |-> TRUE, owner |-> owner.value, repo |-> repo.value,
   version |-> version.value, rev |-> rev.value, hash |-> hash.value,
   revUsesVersion |-> revUsesVersion, hasVendorHash |-> hasVendorHash]

(***************************************************************************)
(* String.prototype.replace(regex, replacement)                            *)
(***************************************************************************)
DigitSeq == <<"0","1","2","3","4","5","6","7","8","9">>
DigitVal(c) == (CHOOSE k \in 1..10 : DigitSeq[k] = c) - 1

\* GetSubstitution: expansion of the replacement template tpl from position
\* k, for the match m of s whose capture groups are captures.  The patterns
\* are $$, $&, $' (the text after the match), $n and $nn; the pattern for
\* the text before the match needs a grave accent, a character no text of
\* this model contains.
RECURSIVE GetSubstitution(_, _, _, _, _)
GetSubstitution(tpl, k, s, m, captures) ==
  IF k > Len(tpl) THEN <<>>
  ELSE IF tpl[k] # "$" \/ k = Len(tpl)
    THEN <<tpl[k]>> \o GetSubstitution(tpl, k + 1, s, m, captures)
  ELSE LET c == tpl[k + 1] IN
    IF c = "$" THEN <<"$">> \o GetSubstitution(tpl, k + 2, s, m, captures)
    ELSE IF c = "&"
      THEN Span(s, m.index, m.end) \o GetSubstitution(tpl, k + 2, s, m, captures)
    ELSE IF c = "'"
      THEN Span(s, m.end + 1, Len(s)) \o GetSubstitution(tpl, k + 2, s, m, captures)
    ELSE IF c \in Digit THEN
      LET two  == k + 2 <= Len(tpl) /\ tpl[k + 2] \in Digit
          idx2 == IF two THEN 10 * DigitVal(c) + DigitVal(tpl[k + 2]) ELSE 0
          use2 == two /\ idx2 <= Len(captures)
          index == IF use2 THEN idx2 ELSE DigitVal(c)
          digitCount == IF use2 THEN 2 ELSE 1
          ref == Span(tpl, k, k + digitCount)
          refReplacement ==
            IF 1 <= index /\ index <= Len(captures) THEN captures[index] ELSE ref
      IN refReplacement \o GetSubstitution(tpl, k + 1 + digitCount, s, m, captures)
    ELSE <<"$">> \o GetSubstitution(tpl, k + 1, s, m, captures)

\* s.replace(/(NAME\s*=\s*)"[^"]+"/, $1"<value>"): the first match is
\* replaced, a text without a match is returned as it is
ReplaceValue(s, pattern, value) ==
  LET m == Exec(s, pattern) IN
  IF ~m.found THEN s
  ELSE LET group1 == Span(s, m.index, m.quoteAt - 1)
           tpl    == <<"$", "1", "\"">> \o value \o <<"\"">>
       IN  Span(s, 1, m.index - 1)
             \o GetSubstitution(tpl, 1, s, m, <<group1>>)
             \o Span(s, m.end + 1, Len(s))

(***************************************************************************)
(* updateNixFile                                                           *)
(***************************************************************************)
UpdateVersionPattern == Pattern(<<n_version>>, TRUE)
UpdateRevPattern     == Pattern(<<n_rev>>, TRUE)
UpdateHashPattern    == Pattern(<<n_hash>>, TRUE)
UpdateSha256Pattern  == Pattern(<<n_sha256>>, TRUE)

\* the rev step of updateNixFile
UpdateRevStep(s, u, o) ==
  IF o.skipRevUpdate # TRUE THEN ReplaceValue(s, UpdateRevPattern, u.rev) ELSE s

\* the hash step of updateNixFile: hash first, sha256 as the fallback
UpdateHashStep(s, u) ==
  IF Exec(s, UpdateHashPattern).found
    THEN ReplaceValue(s, UpdateHashPattern, u.hash)
    ELSE ReplaceValue(s, UpdateSha256Pattern, u.hash)

\* the values the local variable 'updated' of updateNixFile takes: after
\* the version step, after the rev step, and the returned text
updateNixFileSteps(s, u, o) ==
  LET v == ReplaceValue(s, UpdateVersionPattern, u.version)
      r == UpdateRevStep(v, u, o)
  IN  [afterVersion |-> v, afterRev |-> r, result |-> UpdateHashStep(r, u)]

updateNixFile(s, u, o) == updateNixFileSteps(s, u, o).result

(***************************************************************************)
(* Input texts: a Nix file is a header followed by one statement group per *)
(* field, each group drawn from the shapes the regular expressions tell    *)
(* apart.  Shape 1 of every group is the plain assignment.                 *)
(***************************************************************************)
MaxDeviations == 2

Q == <<"\"">>
Assign(name, pad, value) ==
  name \o pad \o <<"=">> \o pad \o Q \o value \o Q \o <<";">>

Header == <<"#"," ","p","\n">> \o Assign(<<"p","n","a","m","e">>, <<>>, <<"p">>)
Footer == <<"\n","}">>

VersionShapes == <<
  Assign(n_version, <<" ">>, <<"1">>),
  <<>>,
  Assign(<<"n","i","x">> \o n_version, <<>>, <<"8">>) \o Assign(n_version, <<>>, <<"1">>),
  Assign(n_version, <<>>, <<"1">>) \o Assign(n_version, <<>>, <<"9">>),
  Assign(n_version, <<>>, <<"r","e","v","=">>),
  Assign(n_version, <<>>, <<>>) >>

OwnerShapes == <<
  Assign(n_owner, <<>>, <<"o">>),
  <<>>,
  Assign(n_owner, <<>>, <<"-","o">>),
  Assign(<<"c","o">> \o n_owner, <<>>, <<"p">>) \o Assign(n_owner, <<>>, <<"o">>) >>

RepoShapes == <<
  Assign(n_repo, <<>>, <<"r">>),
  <<>>,
  Assign(n_repo, <<>>, <<"r",".","g","i","t">>),
  Assign(<<"m","y">> \o n_repo, <<>>, <<"q">>) \o Assign(n_repo, <<>>, <<"r">>) >>

RevShapes == <<
  Assign(n_rev, <<"\n">>, <<"v","1">>),
  <<>>,
  Assign(n_rev, <<>>, <<"v">> \o VersionRef),
  Assign(<<"p","r","e","v">> \o n_rev, <<>>, <<"7">>) \o Assign(n_rev, <<>>, <<"v","1">>) >>

HashShapes == <<
  Assign(n_hash, <<>>, <<"h">>),
  <<>>,
  Assign(n_sha256, <<>>, <<"s">>),
  Assign(<<"o","u","t","p","u","t","H","a","s","h">>, <<>>, <<"u">>),
  Assign(<<"m","y">> \o n_hash, <<>>, <<"u">>) \o Assign(n_hash, <<>>, <<"h">>),
  Assign(n_hash, <<>>, <<"h">>) \o Assign(n_sha256, <<>>, <<"s">>),
  Assign(n_sha256, <<>>, <<"s">>) \o Assign(n_hash, <<>>, <<"h">>),
  Assign(<<"c","a","r","g","o","S","h","a","2","5","6">>, <<>>, <<"c">>)
     \o Assign(n_sha256, <<>>, <<"s">>),
  Assign(n_hash, <<>>, <<"h">>) \o Assign(n_vendorHash, <<>>, <<"w">>),
  Assign(<<"m","y">> \o n_hash, <<>>, <<"u">>) >>

\* new values: shape 1 is a plain value
NewVersionShapes == << <<"3">>, <<>>, <<"$","&">>, <<"r","e","v","=">>,
                       <<"h","a","s","h","=">>, <<"a","\"">> >>
NewRevShapes     == << <<"v","3">>, <<"h","a","s","h","=">>, <<"$","'">> >>
NewHashShapes    == << <<"H">>, <<"$","$">> >>

ShapeChoices ==
  [version : 1..Len(VersionShapes), owner : 1..Len(OwnerShapes),
   repo : 1..Len(RepoShapes), rev : 1..Len(RevShapes),
   hash : 1..Len(HashShapes), newVersion : 1..Len(NewVersionShapes),
   newRev : 1..Len(NewRevShapes), newHash : 1..Len(NewHashShapes)]

Dev(n) == IF n = 1 THEN 0 ELSE 1
Deviations(c) ==
  Dev(c.version) + Dev(c.owner) + Dev(c.repo) + Dev(c.rev) + Dev(c.hash)
    + Dev(c.newVersion) + Dev(c.newRev) + Dev(c.newHash)

Choices == {c \in ShapeChoices : Deviations(c) <= MaxDeviations}

TextOf(c) ==
  Header \o OwnerShapes[c.owner] \o RepoShapes[c.repo]
    \o VersionShapes[c.version] \o RevShapes[c.rev] \o HashShapes[c.hash]
    \o Footer

UpdatesOf(c) ==
  [version |-> NewVersionShapes[c.newVersion], rev |-> NewRevShapes[c.newRev],
   hash |-> NewHashShapes[c.newHash]]

(***************************************************************************)
(* The calls: parse the file, update it, parse and update the result       *)
(***************************************************************************)
Init ==
  /\ pc = "parse"
  /\ \E c \in Choices : content = TextOf(c) /\ updates = UpdatesOf(c)
  /\ options \in [skipRevUpdate : BOOLEAN]
  /\ nixData = NotRun
  /\ updated = NotRun
  /\ reparsed = NotRun
  /\ updatedTwice = NotRun
  /\ ident = <<>>
  /\ identResult = NotRun
  /\ run = NoRun
  /\ prefetch = NoPrefetch

ParseContent ==
  /\ pc = "parse"
  /\ nixData' = Returned(parseNixFile(content))
  /\ pc' = "update"
  /\ UNCHANGED <<content, updates, options, updated, reparsed, updatedTwice,
                 ident, identResult, run, prefetch>>

UpdateContent ==
  /\ pc = "update"
  /\ updated' = ReturnedUpdate(updateNixFileSteps(content, updates, options))
  /\ pc' = "reparse"
  /\ UNCHANGED <<content, updates, options, nixData, reparsed, updatedTwice,
                 ident, identResult, run, prefetch>>

ParseUpdated ==
  /\ pc = "reparse"
  /\ reparsed' = Returned(parseNixFile(updated.value))
  /\ pc' = "updateAgain"
  /\ UNCHANGED <<content, updates, options, nixData, updated, updatedTwice,
                 ident, identResult, run, prefetch>>

UpdateAgain ==
  /\ pc = "updateAgain"
  /\ updatedTwice' = ReturnedUpdate(updateNixFileSteps(updated.value, updates, options))
  /\ pc' = "done"
  /\ UNCHANGED <<content, updates, options, nixData, updated, reparsed,
                 ident, identResult, run, prefetch>>

Next == ParseContent \/ UpdateContent \/ ParseUpdated \/ UpdateAgain

Spec == Init /\ [][Next]_vars

(***************************************************************************)
(* What the properties speak about: the assignments of a text, found       *)
(* without the regular expressions of the source                           *)
(***************************************************************************)
\* the first quote of s at or after position i, 0 when there is none
QuoteFrom(s, i) ==
  LET later == {k \in i..Len(s) : s[k] = "\""}
  IN  IF later = {} THEN 0 ELSE CHOOSE k \in later : \A j \in later : k <= j

\* the assignments  name = "value"  of s whose left-hand side is the
\* identifier name itself and not the tail of a longer one; at is the
\* position of the name, open and close are the quotes around the value
Assignments(s, name) ==
  LET n      == Len(name)
      starts == {i \in 1..(Len(s) - n) :
                   /\ SubSeq(s, i, i + n - 1) = name
                   /\ (i = 1 \/ ~IsWordChar(s[i - 1]))}
      Shape(i) == LET o == QuoteFrom(s, i + n)
                      c == IF o = 0 THEN 0 ELSE QuoteFrom(s, o + 1)
                  IN  [at |-> i, open |-> o, close |-> c]
  IN  {a \in {Shape(i) : i \in starts} :
         /\ a.open # 0 /\ a.close # 0
         /\ a.open + 1 < a.close
         /\ \E e \in (a.at + n)..(a.open - 1) :
              /\ s[e] = "="
              /\ \A k \in ((a.at + n)..(a.open - 1)) \ {e} : IsSpace(s[k])}

\* the first assignment to one of the names: a set with at most one element
FirstAssignment(s, names) ==
  LET all == UNION {Assignments(s, n) : n \in names}
  IN  {a \in all : \A b \in all : a.at <= b.at}

ValueOf(s, a) == SubSeq(s, a.open + 1, a.close - 1)

\* the names a field is looked up by
FieldNames(f) ==
  CASE f = "owner"   -> {n_owner}
    [] f = "repo"    -> {n_repo}
    [] f = "version" -> {n_version}
    [] f = "rev"     -> {n_rev}
    [] f = "hash"    -> {n_hash, n_sha256}

Fields == {"owner", "repo", "version", "rev", "hash"}

Present(s, f) == FirstAssignment(s, FieldNames(f)) # {}
Absent(s) == {f \in Fields : ~Present(s, f)}
FieldValue(s, f) == ValueOf(s, CHOOSE a \in FirstAssignment(s, FieldNames(f)) : TRUE)

\* the name extractValue reports a missing field by
ErrorName(f) == IF f = "hash" THEN "hash or sha256" ELSE f

\* the identifier grammar of an owner: 1 to 39 letters, digits or hyphens,
\* no hyphen first or last
OwnerMaxLen == 39
OwnerGrammar(w) ==
  /\ Len(w) >= 1 /\ Len(w) <= OwnerMaxLen
  /\ \A i \in 1..Len(w) : w[i] \in Lower \cup Upper \cup Digit \cup {"-"}
  /\ w[1] # "-" /\ w[Len(w)] # "-"

\* the identifier grammar of a repository: 1 to 100 letters, digits,
\* hyphens, underscores or periods, not ending in .git
RepoGrammar(w) ==
  /\ Len(w) >= 1 /\ Len(w) <= 100
  /\ \A i \in 1..Len(w) : w[i] \in Lower \cup Upper \cup Digit \cup {"-", "_", "."}
  /\ ~(Len(w) >= 4 /\ SubSeq(w, Len(w) - 3, Len(w)) = <<".","g","i","t">>)

parsed == nixData.value

(***************************************************************************)
(* C2: every field lookup of parseNixFile takes the field name as a whole  *)
(* token.  A returned record holds, for each of owner, repo, version, rev  *)
(* and hash, the value of the first assignment whose left-hand side is     *)
(* exactly the field name (hash or sha256 for the hash), never that of a   *)
(* longer identifier ending in the name; and a text without such a hash or *)
(* sha256 assignment, however many longer-named ones it holds, is never    *)
(* parsed into a record: when nothing else is wrong it fails with the      *)
(* missing 'hash or sha256' error.                                         *)
(***************************************************************************)
C2_WholeToken ==
  nixData.done =>
    /\ parsed.ok =>
         /\ \A f \in Fields : Present(content, f)
         /\ parsed.owner = FieldValue(content, "owner")
         /\ parsed.repo = FieldValue(content, "repo")
         /\ parsed.version = FieldValue(content, "version")
         /\ parsed.rev = FieldValue(content, "rev")
         /\ parsed.hash = FieldValue(content, "hash")
    /\ Absent(content) = {"hash"}
         /\ OwnerGrammar(FieldValue(content, "owner"))
         /\ RepoGrammar(FieldValue(content, "repo"))
       => ~parsed.ok /\ parsed.error = [kind |-> "CouldNotFind", what |-> "hash or sha256"]

n_myhash == <<"m","y","h","a","s","h">>

\* a text holding myhash and hash was parsed and gave the value of hash
C2_Witness ==
  /\ nixData.done /\ parsed.ok
  /\ Includes(content, n_myhash)
  /\ parsed.hash = <<"h">>

\* owner and repo, when both are found, satisfy their grammars
IdentifiersValid(s) ==
  (Present(s, "owner") /\ Present(s, "repo")) =>
     /\ OwnerGrammar(FieldValue(s, "owner"))
     /\ RepoGrammar(FieldValue(s, "repo"))

\* the first field of the order that the text lacks
FirstAbsent(s, order) ==
  order[CHOOSE i \in 1..Len(order) :
          /\ ~Present(s, order[i])
          /\ \A j \in 1..(i - 1) : Present(s, order[j])]

CouldNotFind(f) == [kind |-> "CouldNotFind", what |-> ErrorName(f)]

\* the missing field is reported in the order given
ReportsFirstAbsent(order) ==
  (nixData.done /\ Absent(content) # {} /\ IdentifiersValid(content)) =>
     /\ ~parsed.ok
     /\ parsed.error = CouldNotFind(FirstAbsent(content, order))

C8_AsClaimed ==
  nixData.done =>
    /\ parsed.ok => Absent(content) = {}
    /\ \A f \in Fields :
         Absent(content) = {f} => ~parsed.ok /\ parsed.error = CouldNotFind(f)

(***************************************************************************)
(* C8, amended: parseNixFile returns a record only when all five required  *)
(* fields are present as quoted assignments; when exactly one of them is   *)
(* absent it fails, and the error names exactly that field unless owner    *)
(* and repo are both found and one of them is invalid (then the invalid    *)
(* identifier is what is reported).                                        *)
(***************************************************************************)
C8_MissingField ==
  nixData.done =>
    /\ parsed.ok => Absent(content) = {}
    /\ \A f \in Fields :
         Absent(content) = {f} =>
           /\ ~parsed.ok
           /\ IdentifiersValid(content) => parsed.error = CouldNotFind(f)

\* a text that lacks only its hash was parsed and the error names the hash
C8_Witness ==
  /\ nixData.done
  /\ Absent(content) = {"hash"}
  /\ ~parsed.ok /\ parsed.error = CouldNotFind("hash")

(***************************************************************************)
(* C9: parseNixFile never returns a record whose owner or repo violates    *)
(* the identifier grammar; once owner and repo are both found, an invalid  *)
(* owner or repo makes the call fail with the invalid-owner or invalid-    *)
(* repository error, also when version, rev or hash are missing.           *)
(***************************************************************************)
C9_IdentifiersFirst ==
  nixData.done =>
    /\ parsed.ok => OwnerGrammar(parsed.owner) /\ RepoGrammar(parsed.repo)
    /\ (Present(content, "owner") /\ Present(content, "repo")) =>
         /\ ~OwnerGrammar(FieldValue(content, "owner")) =>
              /\ ~parsed.ok
              /\ parsed.error = [kind |-> "InvalidGitHubOwner", what |-> "owner"]
         /\ (OwnerGrammar(FieldValue(content, "owner"))
               /\ ~RepoGrammar(FieldValue(content, "repo"))) =>
              /\ ~parsed.ok
              /\ parsed.error = [kind |-> "InvalidGitHubRepo", what |-> "repo"]

\* a text with an invalid owner and no version was parsed
C9_Witness ==
  /\ nixData.done
  /\ Present(content, "owner") /\ Present(content, "repo")
  /\ ~OwnerGrammar(FieldValue(content, "owner"))
  /\ "version" \in Absent(content)
  /\ ~parsed.ok /\ parsed.error.kind = "InvalidGitHubOwner"

(***************************************************************************)
(* Frames: a text that differs from another one only inside given spans    *)
(***************************************************************************)
\* the positions of the value of the assignments in as
ValuePositions(as) == UNION {(a.open + 1)..(a.close - 1) : a \in as}

\* the hash-like assignment an update is to rewrite: the first assignment
\* to hash if the text has one, otherwise the first assignment to sha256
SelectedHash(s) ==
  IF FirstAssignment(s, {n_hash}) # {} THEN FirstAssignment(s, {n_hash})
  ELSE FirstAssignment(s, {n_sha256})

\* the elements of a finite set of numbers in increasing order
Ascending(S) ==
  [k \in 1..Cardinality(S) |->
     CHOOSE x \in S : Cardinality({y \in S : y < x}) = k - 1]

\* s cut at the positions in free: the pieces of s outside free, in order
\* (the first one starts the text, the last one ends it; both may be empty)
Pieces(s, free) ==
  LET in     == free \cap (1..Len(s))
      first  == Ascending({i \in in : i - 1 \notin in})
      last   == Ascending({i \in in : i + 1 \notin in})
      n      == Len(first)
  IN  [k \in 1..(n + 1) |->
         SubSeq(s, IF k = 1 THEN 1 ELSE last[k - 1] + 1,
                   IF k = n + 1 THEN Len(s) ELSE first[k] - 1)]

\* the first position at or after from where piece occurs in out, 0 if none
Find(out, piece, from) ==
  LET hits == {p \in from..(Len(out) - Len(piece) + 1) :
                 SubSeq(out, p, p + Len(piece) - 1) = piece}
  IN  IF hits = {} THEN 0 ELSE CHOOSE p \in hits : \A q \in hits : p <= q

\* out consists of the pieces from the k-th on, in order, separated by
\* arbitrary texts, the k-th one not starting before position from
RECURSIVE Embeds(_, _, _, _)
Embeds(out, from, pieces, k) ==
  LET g == pieces[k] IN
  IF k = Len(pieces)
    THEN /\ Len(out) - Len(g) + 1 >= from
         /\ SubSeq(out, Len(out) - Len(g) + 1, Len(out)) = g
         /\ (k = 1 => out = g)
  ELSE IF k = 1
    THEN /\ Len(out) >= Len(g)
         /\ SubSeq(out, 1, Len(g)) = g
         /\ Embeds(out, Len(g) + 1, pieces, 2)
  ELSE LET p == Find(out, g, from)
       IN  p # 0 /\ Embeds(out, p + Len(g), pieces, k + 1)

\* out is s with the positions in free replaced by arbitrary texts and with
\* every other character kept, in the same order
DiffersOnlyIn(s, out, free) == Embeds(out, 1, Pieces(s, free), 1)

(***************************************************************************)
(* C1: the output of updateNixFile differs from the input only inside the  *)
(* quoted value of the first whole-token version assignment, of the first  *)
(* whole-token rev assignment (unless skipRevUpdate) and of the selected   *)
(* hash or sha256 assignment; every other character is kept in order.      *)
(***************************************************************************)
C1_Targets ==
  FirstAssignment(content, {n_version})
    \cup (IF options.skipRevUpdate THEN {} ELSE FirstAssignment(content, {n_rev}))
    \cup SelectedHash(content)

C1_FrameAsClaimed ==
  updated.done => DiffersOnlyIn(content, updated.value, ValuePositions(C1_Targets))

(***************************************************************************)
(* C3: updateNixFile rewrites exactly one hash-like assignment: in the     *)
(* text its hash step starts from, the value of the first whole-token hash *)
(* assignment if there is one, otherwise that of the first whole-token     *)
(* sha256 assignment.  Nothing else changes in that step: the other        *)
(* candidate field and every longer-named field (outputHash, myhash,       *)
(* vendorHash, cargoSha256) keep their values, and a text with neither     *)
(* candidate is returned as it is.                                         *)
(***************************************************************************)
LongerNamed == {
  Assign(<<"o","u","t","p","u","t","H","a","s","h">>, <<>>, <<"u">>),
  Assign(<<"m","y">> \o n_hash, <<>>, <<"u">>),
  Assign(n_vendorHash, <<>>, <<"w">>),
  Assign(<<"c","a","r","g","o","S","h","a","2","5","6">>, <<>>, <<"c">>) }

C3_OneHashAsClaimed ==
  updated.done =>
    LET before == updated.afterRev
        after  == updated.value
        sel    == SelectedHash(before)
    IN  /\ DiffersOnlyIn(before, after, ValuePositions(sel))
        /\ sel = {} => after = before
        /\ \A l \in LongerNamed : Includes(before, l) => Includes(after, l)
        /\ (FirstAssignment(before, {n_hash}) # {} /\ Present(before, "hash")) =>
             \A a \in FirstAssignment(before, {n_sha256}) :
               \E b \in FirstAssignment(after, {n_sha256}) :
                 ValueOf(after, b) = ValueOf(before, a)

(***************************************************************************)
(* C4: round trip.  For a text that parseNixFile accepts and new values    *)
(* v2, r2, h2, with skipRevUpdate false, the updated text parses again and *)
(* gives version v2, rev r2 and hash h2, with the owner and repo of the    *)
(* original text.                                                          *)
(***************************************************************************)
C4_RoundTripAsClaimed ==
  (reparsed.done /\ parsed.ok /\ ~options.skipRevUpdate) =>
     /\ reparsed.value.ok
     /\ reparsed.value.version = updates.version
     /\ reparsed.value.rev = updates.rev
     /\ reparsed.value.hash = updates.hash
     /\ reparsed.value.owner = parsed.owner
     /\ reparsed.value.repo = parsed.repo

(***************************************************************************)
(* C5: idempotence.  Updating the updated text once more with the same     *)
(* update and options gives the updated text again.                        *)
(***************************************************************************)
C5_IdempotentAsClaimed ==
  updatedTwice.done => updatedTwice.value = updated.value

(***************************************************************************)
(* C6: with skipRevUpdate true the rev assignment and its literal are in   *)
(* the output as they are in the input, while the version value and the    *)
(* selected hash value are replaced by the new ones.                       *)
(***************************************************************************)
C6_SkipRevAsClaimed ==
  (updated.done /\ options.skipRevUpdate) =>
     /\ \A a \in FirstAssignment(content, {n_rev}) :
          \E b \in FirstAssignment(updated.value, {n_rev}) :
            SubSeq(updated.value, b.at, b.close) = SubSeq(content, a.at, a.close)
     /\ Present(content, "version") =>
          \E b \in FirstAssignment(updated.value, {n_version}) :
            ValueOf(updated.value, b) = updates.version
     /\ SelectedHash(content) # {} =>
          \E b \in SelectedHash(updated.value) :
            ValueOf(updated.value, b) = updates.hash

(***************************************************************************)
(* The owner validator on its own: strings of every length around the      *)
(* limit, with any character first, last and in between                    *)
(***************************************************************************)
MaxFill == 40

IdentChars == {"a", "Z", "7", "-", "_", "@", "\n"}

RECURSIVE Fill(_, _)
Fill(c, n) == IF n = 0 THEN <<>> ELSE <<c>> \o Fill(c, n - 1)

Edges == {<<>>} \cup {<<c>> : c \in IdentChars}

Idents == {h \o Fill(c, n) \o t : h \in Edges, t \in Edges,
                                   c \in IdentChars, n \in 0..MaxFill}

InitValidate ==
  /\ pc = "validate"
  /\ ident \in Idents
  /\ identResult = NotRun
  /\ run = NoRun
  /\ prefetch = NoPrefetch
  /\ content = <<>>
  /\ updates = [version |-> <<>>, rev |-> <<>>, hash |-> <<>>]
  /\ options = [skipRevUpdate |-> FALSE]
  /\ nixData = NotRun
  /\ updated = NotRun
  /\ reparsed = NotRun
  /\ updatedTwice = NotRun

ValidateOwner ==
  /\ pc = "validate"
  /\ identResult' = Returned(validateGitHubOwner(ident))
  /\ pc' = "validated"
  /\ UNCHANGED <<content, updates, options, nixData, updated, reparsed,
                 updatedTwice, ident, run, prefetch>>

NextValidate == ValidateOwner

SpecValidate == InitValidate /\ [][NextValidate]_vars

(***************************************************************************)
(* C10: the owner validator accepts a string exactly when it has 1 to 39   *)
(* characters, every character is an ASCII letter, digit or hyphen, and it *)
(* neither starts nor ends with a hyphen.                                  *)
(***************************************************************************)
C10_OwnerGrammar ==
  identResult.done => (identResult.value <=> OwnerGrammar(ident))

\* an owner of exactly 39 characters with hyphens inside was accepted
C10_Witness ==
  /\ identResult.done /\ identResult.value
  /\ Len(ident) = OwnerMaxLen
  /\ ident[2] = "-"

(***************************************************************************)
(* The repository validator on its own: names of every length around the   *)
(* limit, with any character first and in between and any ending           *)
(***************************************************************************)
MaxRepoFill == 101

RepoChars == {"a", "7", ".", "_", "-", "@", "/"}

RepoHeads == {<<>>, <<"Z">>, <<".">>, <<"/">>}

RepoTails == {<<>>, <<".","g","i","t">>, <<".","g","i">>, <<"g","i","t">>,
              <<".","G","I","T">>, <<".","g","i","t","x">>, <<"-">>, <<"\n">>}

RepoIdents == {h \o Fill(c, n) \o t : h \in RepoHeads, t \in RepoTails,
                                     c \in RepoChars, n \in 0..MaxRepoFill}

InitValidateRepo ==
  /\ pc = "validateRepo"
  /\ ident \in RepoIdents
  /\ identResult = NotRun
  /\ run = NoRun
  /\ prefetch = NoPrefetch
  /\ content = <<>>
  /\ updates = [version |-> <<>>, rev |-> <<>>, hash |-> <<>>]
  /\ options = [skipRevUpdate |-> FALSE]
  /\ nixData = NotRun
  /\ updated = NotRun
  /\ reparsed = NotRun
  /\ updatedTwice = NotRun

ValidateRepo ==
  /\ pc = "validateRepo"
  /\ identResult' = Returned(validateGitHubRepo(ident))
  /\ pc' = "validatedRepo"
  /\ UNCHANGED <<content, updates, options, nixData, updated, reparsed,
                 updatedTwice, ident, run, prefetch>>

NextValidateRepo == ValidateRepo

SpecValidateRepo == InitValidateRepo /\ [][NextValidateRepo]_vars

(***************************************************************************)
(* C11: the repository validator accepts a string exactly when it has 1 to *)
(* 100 characters, every character is an ASCII letter, digit, hyphen,      *)
(* underscore or period, and it does not end with the suffix .git.         *)
(***************************************************************************)
C11_RepoGrammar ==
  (pc = "validatedRepo") => (identResult.value <=> RepoGrammar(ident))

\* a name of exactly 100 characters that starts with a period was accepted
C11_Witness ==
  /\ pc = "validatedRepo" /\ identResult.value
  /\ Len(ident) = RepoMaxLen
  /\ ident[1] = "."

(***************************************************************************)
(* The flags of the parsed record: texts with every kind of rev literal    *)
(* and every kind of line that mentions vendorHash                         *)
(***************************************************************************)
RevLiterals == <<
  <<"v","1">>,
  <<"v","$","{","v","e","r","s","i","o","n","}">>,
  <<"$","{","v","e","r","s","i","o","n","}">>,
  <<"r","e","f","s","/","t","a","g","s","/","v","$","{","v","e","r","s","i","o","n","}">>,
  <<"$","v","e","r","s","i","o","n">>,
  <<"$","{","V","e","r","s","i","o","n","}">>,
  <<"$","{","v","e","r","s","i","o","n">>,
  <<"{","v","e","r","s","i","o","n","}">>,
  <<"$","{"," ","v","e","r","s","i","o","n"," ","}">>,
  <<"v","$","{","v","e","r","s","i","o","n","}","-","r","c">>,
  <<"$","{","v","e","r","s","i","o","n","s","}">>,
  <<"$","$","{","v","e","r","s","i","o","n","}">> >>

VendorLines == <<
  <<>>,
  <<"v","e","n","d","o","r","H","a","s","h"," ","="," ","\"","w","\"",";">>,
  <<"#"," ","v","e","n","d","o","r","H","a","s","h"," ","="," ","\"","w","\"",";">>,
  <<"v","e","n","d","o","r","H","a","s","h"," ","="," ","n","u","l","l",";">>,
  <<" "," ","v","e","n","d","o","r","H","a","s","h","=","l","i","b",".","f","a","k","e","H","a","s","h",";">>,
  <<"x"," ","="," ","1",";"," ","#"," ","v","e","n","d","o","r","H","a","s","h"," ","="," ","\"","w","\"",";">>,
  <<"m","y","v","e","n","d","o","r","H","a","s","h"," ","="," ","\"","w","\"",";">>,
  <<"v","e","n","d","o","r","H","a","s","h","e","s"," ","="," ","\"","w","\"",";">>,
  <<"v","e","n","d","o","r","H","a","s","h","\n","="," ","\"","w","\"",";">>,
  <<"#"," ","c","\r","v","e","n","d","o","r","H","a","s","h"," ","="," ","\"","w","\"",";">>,
  <<"v","e","n","d","o","r","H","a","s","h"," ","#"," ","c","\n","="," ","\"","w","\"",";">>,
  <<"#"," ","c","\n","v","e","n","d","o","r","H","a","s","h","=","\"","w","\"",";">>,
  <<"v","e","n","d","o","r","H","a","s","h",";">>,
  <<"a"," ","="," ","\"","#","\"",";"," ","v","e","n","d","o","r","H","a","s","h"," ","="," ","\"","w","\"",";">>,
  <<"x",".","v","e","n","d","o","r","H","a","s","h"," ","="," ","\"","w","\"",";">>,
  <<"v","e","n","d","o","r","h","a","s","h"," ","="," ","\"","w","\"",";">> >>

FlagsTextOf(r, v) ==
  Assign(n_owner, <<>>, <<"o">>) \o Assign(n_repo, <<>>, <<"r">>)
    \o Assign(n_version, <<>>, <<"1">>)
    \o Assign(n_rev, <<" ">>, RevLiterals[r]) \o Assign(n_hash, <<>>, <<"h">>)
    \o <<"\n">> \o VendorLines[v] \o Footer

InitFlags ==
  /\ pc = "parseFlags"
  /\ \E r \in 1..Len(RevLiterals), v \in 1..Len(VendorLines) :
       content = FlagsTextOf(r, v)
  /\ updates = [version |-> <<>>, rev |-> <<>>, hash |-> <<>>]
  /\ options = [skipRevUpdate |-> FALSE]
  /\ nixData = NotRun
  /\ updated = NotRun
  /\ reparsed = NotRun
  /\ updatedTwice = NotRun
  /\ ident = <<>>
  /\ identResult = NotRun
  /\ run = NoRun
  /\ prefetch = NoPrefetch

ParseFlags ==
  /\ pc = "parseFlags"
  /\ nixData' = Returned(parseNixFile(content))
  /\ pc' = "parsedFlags"
  /\ UNCHANGED <<content, updates, options, updated, reparsed, updatedTwice,
                 ident, identResult, run, prefetch>>

NextFlags == ParseFlags

SpecFlags == InitFlags /\ [][NextFlags]_vars

\* w occurs in s at position i
OccursAt(s, i, w) == i >= 1 /\ i + Len(w) - 1 <= Len(s) /\ SubSeq(s, i, i + Len(w) - 1) = w

(***************************************************************************)
(* C12: in every record parseNixFile returns, revUsesVersion is true       *)
(* exactly when the rev literal contains ${version} anywhere, and the rev  *)
(* literal is returned as it stands in the text.                           *)
(***************************************************************************)
C12_RevUsesVersion ==
  (nixData.done /\ parsed.ok) =>
     /\ parsed.rev = FieldValue(content, "rev")
     /\ parsed.revUsesVersion <=>
          \E i \in 1..Len(parsed.rev) :
            OccursAt(parsed.rev, i, <<"$","{">> \o n_version \o <<"}">>)

\* the path-like literal refs/tags/v${version} was parsed and flagged
C12_Witness ==
  /\ nixData.done /\ parsed.ok /\ parsed.revUsesVersion
  /\ parsed.rev = RevLiterals[4]

\* the line of position j starts after the last line terminator before j
LineStartOf(s, j) ==
  LET ends == {k \in 1..(j - 1) : s[k] \in {"\n", "\r"}}
  IN  IF ends = {} THEN 1 ELSE 1 + CHOOSE k \in ends : \A l \in ends : l <= k

\* an assignment to vendorHash, with any right-hand side, starts at j
VendorAssignmentAt(s, j) ==
  /\ OccursAt(s, j, n_vendorHash)
  /\ (j = 1 \/ ~IsWordChar(s[j - 1]))
  /\ \E e \in (j + Len(n_vendorHash))..Len(s) :
       /\ s[e] = "="
       /\ \A k \in (j + Len(n_vendorHash))..(e - 1) : IsSpace(s[k])

(***************************************************************************)
(* C13: in every record parseNixFile returns, hasVendorHash is true        *)
(* exactly when some line of the text holds a whole-token vendorHash       *)
(* assignment (any right-hand side) with no comment marker # before it on  *)
(* that line.                                                              *)
(***************************************************************************)
C13_HasVendorHash ==
  (nixData.done /\ parsed.ok) =>
     (parsed.hasVendorHash <=>
        \E j \in 1..Len(content) :
          /\ VendorAssignmentAt(content, j)
          /\ \A k \in LineStartOf(content, j)..(j - 1) : content[k] # "#")

\* a text whose only vendorHash assignment follows a # on its line was
\* parsed and not flagged
C13_Witness ==
  /\ nixData.done /\ parsed.ok /\ ~parsed.hasVendorHash
  /\ \E j \in 1..Len(content) :
       /\ VendorAssignmentAt(content, j)
       /\ \E k \in LineStartOf(content, j)..(j - 1) : content[k] = "#"

(***************************************************************************)
(* C14: updateNixFile never returns a partially updated text: the output   *)
(* holds the new value in every targeted field (version, rev unless        *)
(* skipRevUpdate, and the hash field), or no text is produced; a returned  *)
(* text never has some targeted fields rewritten and another one not.      *)
(***************************************************************************)
HoldsNew(out, as, value) == \E a \in as : ValueOf(out, a) = value

C14_NoPartialAsClaimed ==
  updated.done =>
    LET out == updated.value IN
    \/ out = content
    \/ /\ HoldsNew(out, FirstAssignment(out, {n_version}), updates.version)
       /\ options.skipRevUpdate
            \/ HoldsNew(out, FirstAssignment(out, {n_rev}), updates.rev)
       /\ HoldsNew(out, SelectedHash(out), updates.hash)

(***************************************************************************)
(* The action (src/src/main.ts): inputs, version and branch helpers,       *)
(* error reporting                                                         *)
(***************************************************************************)
\* String.prototype.trim
Trim(s) ==
  LET keep == {i \in 1..Len(s) : ~IsSpace(s[i])}
  IN  IF keep = {} THEN <<>>
      ELSE SubSeq(s, CHOOSE i \in keep : \A j \in keep : i <= j,
                     CHOOSE i \in keep : \A j \in keep : j <= i)

\* String.prototype.split with a one-character separator
Split(s, sep) ==
  LET cuts == Ascending({i \in 1..Len(s) : s[i] = sep})
      n    == Len(cuts)
  IN  [k \in 1..(n + 1) |->
         SubSeq(s, IF k = 1 THEN 1 ELSE cuts[k - 1] + 1,
                   IF k = n + 1 THEN Len(s) ELSE cuts[k] - 1)]

\* a thrown error of the given class
ThrowError(class) == [ok |-> FALSE, class |-> class]

\* core.getInput(name, { required: true }): an input that is not supplied
\* is an Error of the toolkit; a supplied one is returned trimmed
getInput(raw) ==
  IF raw = <<>> THEN ThrowError("Error")
  ELSE [ok |-> TRUE, value |-> Trim(raw)]

\* parseInputs(): the validated inputs or the error thrown
parseInputs(raw) ==
  LET packageName == getInput(raw.packageName)
      version     == getInput(raw.version)
      targetRepo  == getInput(raw.targetRepo)
      githubToken == getInput(raw.githubToken)
  IN
  IF ~packageName.ok THEN packageName ELSE
  IF ~version.ok THEN version ELSE
  IF ~targetRepo.ok THEN targetRepo ELSE
  IF ~githubToken.ok THEN githubToken ELSE
  LET parts == Split(targetRepo.value, "/") IN
  IF Len(parts) # 2 THEN ThrowError("InputValidationError") ELSE
  IF parts[1] = <<>> \/ parts[2] = <<>>
    THEN ThrowError("InputValidationError") ELSE
  IF Includes(packageName.value, <<"/">>)
       \/ Includes(packageName.value, <<".", ".">>)
    THEN ThrowError("InputValidationError") ELSE
  IF Trim(packageName.value) = <<>>
    THEN ThrowError("InputValidationError") ELSE
  IF Trim(version.value) = <<>>
    THEN ThrowError("InputValidationError") ELSE
  [ok |-> TRUE,
   value |-> [packageName |-> packageName.value, version |-> version.value,
              targetRepo |-> targetRepo.value,
              githubToken |-> githubToken.value,
              targetOwner |-> parts[1], targetRepoName |-> parts[2]]]

\* stripVersionPrefix(version):  version.replace(/^[vV]/, '')
stripVersionPrefix(version) ==
  IF Len(version) >= 1 /\ version[1] \in {"v", "V"}
    THEN SubSeq(version, 2, Len(version))
    ELSE version

\* a branch name made of the package name as it is
formatBranchName_unsanitized(packageName) ==
  <<"c","h","o","r","e","/">> \o packageName

\* formatBranchName(packageName):
\* 'chore/' + packageName.replace(/[^a-zA-Z0-9_-]/g, '-')
formatBranchName(packageName) ==
  <<"c","h","o","r","e","/">> \o
    [i \in 1..Len(packageName) |->
       IF IsAlnum(packageName[i]) \/ packageName[i] \in {"_", "-"}
         THEN packageName[i] ELSE "-"]

\* the error classes of errors.ts that extend NixpkgsUpdaterError
UpdaterErrors == {"InputValidationError", "NixPrefetchError",
                  "NixFileParseError", "GitOperationError", "GitHubAPIError",
                  "NixpkgsUpdaterError"}

\* handleError(error): the start of the message handed to core.setFailed
handleError(class) ==
  IF class = "InputValidationError" THEN "Input validation error"
  ELSE IF class = "NixPrefetchError" THEN "Nix prefetch failed"
  ELSE IF class = "NixFileParseError" THEN "Failed to parse Nix file"
  ELSE IF class = "GitOperationError" THEN "Git operation failed"
  ELSE IF class = "GitHubAPIError" THEN "GitHub API error"
  ELSE IF class \in UpdaterErrors THEN "Error"
  ELSE IF class = "Error" THEN "Unexpected error"
  ELSE "An unexpected error occurred"

(***************************************************************************)
(* createOrUpdatePR (github-api.ts): the pull requests of the target       *)
(* repository are records [number, head, package, body]: package is the     *)
(* package name of the title, the body is the set of its parts             *)
(***************************************************************************)
\* the body of the pull request
PRBody(prOptions) ==
  {"Updated version field", "Updated source hash"}
    \cup (IF prOptions.revUsesVersion THEN {} ELSE {"Updated rev field"})
    \cup (IF prOptions.hasVendorHash THEN {"Action Required: vendorHash"} ELSE {})

\* the open pull requests whose head is the branch
PullsOf(remote, branchName) == {p \in remote.prs : p.head = branchName}

\* createOrUpdatePR that never looks for an existing pull request
createOrUpdatePR_alwaysCreate(remote, targetRepo, branchName, packageName, prOptions, api) ==
  IF api # "ok" THEN ThrowError("GitHubAPIError") ELSE
  [ok |-> TRUE, call |-> "pulls.create",
   value |-> [number |-> remote.next, created |-> TRUE],
   remote |-> [prs |-> remote.prs \cup
                         {[number |-> remote.next, head |-> branchName,
                           package |-> packageName,
                           body |-> PRBody(prOptions)]},
               next |-> remote.next + 1]]

\* createOrUpdatePR(targetRepo, token, branchName, packageName, version,
\* options); api is what the GitHub API does: "ok", "listFails" or
\* "writeFails"
createOrUpdatePR(remote, targetRepo, branchName, packageName, prOptions, api) ==
  LET parts    == Split(targetRepo, "/")
      existing == PullsOf(remote, branchName)
  IN
  IF Len(parts) # 2 \/ parts[1] = <<>> \/ parts[Len(parts)] = <<>>
    THEN ThrowError("GitHubAPIError") ELSE
  IF api # "ok" THEN ThrowError("GitHubAPIError") ELSE
  IF existing # {}
    THEN LET pr == CHOOSE p \in existing : \A q \in existing : p.number <= q.number
         IN  [ok |-> TRUE, call |-> "pulls.update",
              value |-> [number |-> pr.number, created |-> FALSE],
              remote |-> [prs |-> (remote.prs \ {pr}) \cup
                                    {[number |-> pr.number, head |-> pr.head,
                                      package |-> packageName,
                                      body |-> PRBody(prOptions)]},
                          next |-> remote.next]]
    ELSE [ok |-> TRUE, call |-> "pulls.create",
          value |-> [number |-> remote.next, created |-> TRUE],
          remote |-> [prs |-> remote.prs \cup
                                {[number |-> remote.next, head |-> branchName,
                                      package |-> packageName,
                                      body |-> PRBody(prOptions)]},
                      next |-> remote.next + 1]]

(***************************************************************************)
(* run (src/src/main.ts): one action per awaited step                      *)
(***************************************************************************)
MaxRuns == 2

PackageNames == {<<"p","k","g">>, <<"m","y","@","p">>, <<"m","y",".","p">>,
                 <<"a","/","b">>, <<".",".">>, <<" ">>} \cup {<<>>}
InputVersions == {<<"v","1">>, <<"1">>, <<"V","2">>, <<"v">>, <<"v","v","1">>, <<"v","$","&">>, <<" ">>} \cup {<<>>}
TargetRepos == {<<"o","/","r">>, <<"o","r">>, <<"o","/","r","/","x">>, <<"/","r">>, <<"o","/">>} \cup {<<>>}
Tokens == {<<"t">>} \cup {<<>>}

RawInputs == [packageName : PackageNames, version : InputVersions,
              targetRepo : TargetRepos, githubToken : Tokens]

\* pkgs/<package>/default.nix of the target repository: a literal rev, an
\* interpolated rev, either with vendorHash, a file without version and a
\* file with an invalid owner
RepoFiles == {FlagsTextOf(1, 1), FlagsTextOf(2, 1), FlagsTextOf(1, 2),
              FlagsTextOf(4, 5), FlagsTextOf(1, 3),
              TextOf([version |-> 2, owner |-> 1, repo |-> 1, rev |-> 1,
                      hash |-> 1]),
              TextOf([version |-> 1, owner |-> 3, repo |-> 1, rev |-> 1,
                      hash |-> 1])}

NoInputs == [packageName |-> <<>>, version |-> <<>>, targetRepo |-> <<>>,
             githubToken |-> <<>>, targetOwner |-> <<>>,
             targetRepoName |-> <<>>]
NoPR == [number |-> 0, created |-> FALSE]
NoOutputs == [prUrl |-> <<>>, prNumber |-> 0, branchName |-> <<>>]

\* the start of run with the given inputs, pull requests and run count
StartOfRun(raw, remote, runs) ==
  [started |-> TRUE, raw |-> raw, inputs |-> NoInputs, fetched |-> <<>>,
   newHash |-> <<>>, worktree |-> <<>>, branch |-> <<>>,
   branchReused |-> FALSE, git |-> <<>>, committed |-> <<>>,
   effects |-> {}, threw |-> "", setFailed |-> 0,
   failed |-> "", failedAt |-> "", pr |-> NoPR, outputs |-> NoOutputs,
   remote |-> remote, runs |-> runs]

InitRun ==
  /\ pc = "parseInputs"
  /\ \E raw \in RawInputs :
       run = StartOfRun(raw, [prs |-> {}, next |-> 1], 1)
  /\ prefetch = NoPrefetch
  /\ content = <<>>
  /\ updates = [version |-> <<>>, rev |-> <<>>, hash |-> <<>>]
  /\ options = [skipRevUpdate |-> FALSE]
  /\ nixData = NotRun
  /\ updated = NotRun
  /\ reparsed = NotRun
  /\ updatedTwice = NotRun
  /\ ident = <<>>
  /\ identResult = NotRun

\* a catch block after which run goes on with commitAndPush
Caught_resumes(at, class, effects) ==
  /\ pc' = "commitAndPush"
  /\ run' = [run EXCEPT !.threw = class, !.setFailed = run.setFailed + 1,
                           !.failed = handleError(class),
                        !.failedAt = at, !.effects = run.effects \cup effects]

\* catch (error) { handleError(error) }: the step at threw an error of the
\* class after making the effects
Caught(at, class, effects) ==
  /\ pc' = "failed"
  /\ run' = [run EXCEPT !.threw = class, !.setFailed = run.setFailed + 1,
                           !.failed = handleError(class),
                        !.failedAt = at, !.effects = run.effects \cup effects]

\* the variables of the parser model that run does not use
Unused == <<reparsed, updatedTwice, ident, identResult, prefetch>>

\* const inputs = parseInputs()
RunParseInputs ==
  /\ pc = "parseInputs"
  /\ LET r == parseInputs(run.raw) IN
       IF r.ok
         THEN /\ pc' = "cloneRepository"
              /\ run' = [run EXCEPT !.inputs = r.value]
         ELSE Caught("parseInputs", r.class, {})
  /\ UNCHANGED <<content, updates, options, nixData, updated>>
  /\ UNCHANGED Unused

\* await cloneRepository(inputs.targetRepo, inputs.githubToken): mkdirP and
\* the two git config commands run outside the try block of git clone
RunCloneRepository ==
  /\ pc = "cloneRepository"
  /\ \E outcome \in {"ok", "mkdirFails", "cloneFails", "configFails"} :
       CASE outcome = "mkdirFails"  -> Caught("mkdirP", "Error", {})
         [] outcome = "cloneFails"  ->
              Caught("git clone", "GitOperationError", {"clone"})
         [] outcome = "configFails" -> Caught("git config", "Error", {"clone"})
         [] OTHER ->
              /\ pc' = "readFile"
              /\ run' = [run EXCEPT !.effects = run.effects \cup {"clone"}]
  /\ UNCHANGED <<content, updates, options, nixData, updated>>
  /\ UNCHANGED Unused

\* nixContent = await fs.readFile(nixFilePath, 'utf-8'), wrapped in
\* NixFileParseError
RunReadFile ==
  /\ pc = "readFile"
  /\ \/ /\ \E f \in RepoFiles : content' = f
        /\ pc' = "parseNixFile"
        /\ run' = [run EXCEPT !.worktree = content']
     \/ /\ Caught("readFile", "NixFileParseError", {})
        /\ UNCHANGED content
  /\ UNCHANGED <<updates, options, nixData, updated>>
  /\ UNCHANGED Unused

\* const nixData = parseNixFile(nixContent): not wrapped, and parseNixFile
\* throws plain Error objects
RunParseNixFile ==
  /\ pc = "parseNixFile"
  /\ nixData' = Returned(parseNixFile(content))
  /\ IF nixData'.value.ok
       THEN pc' = "fetchHash" /\ UNCHANGED run
       ELSE Caught("parseNixFile", "Error", {})
  /\ UNCHANGED <<content, updates, options, updated>>
  /\ UNCHANGED Unused

\* newHash = await fetchHash(owner, repo, inputs.version), wrapped in
\* NixPrefetchError
RunFetchHash ==
  /\ pc = "fetchHash"
  /\ \/ /\ pc' = "updateNixFile"
        /\ run' = [run EXCEPT !.fetched = run.inputs.version,
                              !.newHash = <<"H">>,
                              !.effects = run.effects \cup {"prefetch"}]
     \/ /\ pc' = "failed"
        /\ run' = [run EXCEPT !.fetched = run.inputs.version,
                              !.threw = "NixPrefetchError",
                              !.setFailed = run.setFailed + 1,
                           !.failed = handleError("NixPrefetchError"),
                              !.failedAt = "fetchHash",
                              !.effects = run.effects \cup {"prefetch"}]
  /\ UNCHANGED <<content, updates, options, nixData, updated>>
  /\ UNCHANGED Unused

\* updateNixFile(nixContent, {version: cleanVersion, rev: inputs.version,
\* hash: newHash}, {skipRevUpdate: nixData.revUsesVersion}) and
\* await fs.writeFile(nixFilePath, updatedContent)
RunUpdateNixFile ==
  /\ pc = "updateNixFile"
  /\ updates' = [version |-> stripVersionPrefix(run.inputs.version),
                 rev |-> run.inputs.version, hash |-> run.newHash]
  /\ options' = [skipRevUpdate |-> nixData.value.revUsesVersion]
  /\ updated' = ReturnedUpdate(updateNixFileSteps(content, updates', options'))
  /\ \/ /\ pc' = "createBranch"
        /\ run' = [run EXCEPT !.worktree = updated'.value,
                              !.effects = run.effects \cup {"write"}]
     \/ Caught("writeFile", "Error", {})
  /\ UNCHANGED <<content, nixData>>
  /\ UNCHANGED Unused

\* createBranch whose existing-branch path creates the branch as well
createBranch_resetThenCreate(checkout) ==
  CASE checkout = "exists" ->
         [ok |-> TRUE, reset |-> TRUE,
          git |-> <<"fetch origin", "checkout", "reset --hard origin/main",
                    "checkout -b">>]
    [] checkout = "existsResetFails" ->
         [ok |-> TRUE, reset |-> FALSE,
          git |-> <<"fetch origin", "checkout", "reset --hard origin/main",
                    "checkout -b">>]
    [] checkout = "created" ->
         [ok |-> TRUE, reset |-> FALSE,
          git |-> <<"fetch origin", "checkout", "checkout -b">>]
    [] OTHER ->
         [ok |-> FALSE, reset |-> FALSE, class |-> "GitOperationError",
          git |-> <<"fetch origin", "checkout", "checkout -b">>]

\* createBranch(repoPath, branchName): the git commands it runs, whether
\* the hard reset took place, and the error it throws.  checkout is what
\* git does: the branch "exists" and is checked out and reset, it exists
\* and the reset fails (ignoreReturnCode), it is "created", or its creation
\* fails
createBranch(checkout) ==
  CASE checkout = "exists" ->
         [ok |-> TRUE, reset |-> TRUE,
          git |-> <<"fetch origin", "checkout", "reset --hard origin/main">>]
    [] checkout = "existsResetFails" ->
         [ok |-> TRUE, reset |-> FALSE,
          git |-> <<"fetch origin", "checkout", "reset --hard origin/main">>]
    [] checkout = "created" ->
         [ok |-> TRUE, reset |-> FALSE,
          git |-> <<"fetch origin", "checkout", "checkout -b">>]
    [] OTHER ->
         [ok |-> FALSE, reset |-> FALSE, class |-> "GitOperationError",
          git |-> <<"fetch origin", "checkout", "checkout -b">>]

\* const branchName = formatBranchName(inputs.packageName);
\* await createBranch(repoPath, branchName): a hard reset puts the Nix file
\* of origin/main, the one run read, back into the working tree
RunCreateBranch ==
  /\ pc = "createBranch"
  /\ LET branchName == formatBranchName(run.inputs.packageName) IN
     \E checkout \in {"exists", "existsResetFails", "created", "createFails"} :
       LET r == createBranch(checkout) IN
       IF r.ok
         THEN /\ pc' = "commitAndPush"
              /\ run' = [run EXCEPT
                           !.branch = branchName,
                           !.branchReused =
                              (checkout \in {"exists", "existsResetFails"}),
                           !.git = r.git,
                           !.worktree = IF r.reset THEN content ELSE run.worktree,
                           !.effects = run.effects \cup {"branch"}]
         ELSE /\ pc' = "failed"
              /\ run' = [run EXCEPT !.branch = branchName,
                           !.git = r.git,
                           !.threw = r.class,
                           !.setFailed = run.setFailed + 1,
                           !.failed = handleError(r.class),
                           !.failedAt = "git checkout -b"]
  /\ UNCHANGED <<content, updates, options, nixData, updated>>
  /\ UNCHANGED Unused

\* await commitAndPush(repoPath, branchName, commitMessage): git commit
\* fails when git add -A staged nothing
RunCommitAndPush ==
  /\ pc = "commitAndPush"
  /\ \E outcome \in {"ok", "commitFails", "pushFails"} :
       CASE outcome = "commitFails" \/ run.worktree = content ->
              Caught("git commit", "GitOperationError", {})
         [] outcome = "pushFails" ->
              /\ pc' = "failed"
              /\ run' = [run EXCEPT !.committed = run.worktree,
                           !.threw = "GitOperationError",
                           !.setFailed = run.setFailed + 1,
                           !.failed = handleError("GitOperationError"),
                           !.failedAt = "git push",
                           !.effects = run.effects \cup {"commit"}]
         [] OTHER ->
              /\ pc' = "createOrUpdatePR"
              /\ run' = [run EXCEPT
                           !.committed = run.worktree,
                           !.effects = run.effects \cup {"commit", "push"}]
  /\ UNCHANGED <<content, updates, options, nixData, updated>>
  /\ UNCHANGED Unused

\* the options run passes without the flags of the parsed file
PROptionsOf_noFlags(data) == [hasVendorHash |-> FALSE, revUsesVersion |-> FALSE]

\* { hasVendorHash: nixData.hasVendorHash,
\*   revUsesVersion: nixData.revUsesVersion }
PROptionsOf(data) ==
  [hasVendorHash |-> data.hasVendorHash, revUsesVersion |-> data.revUsesVersion]

\* the html_url of a pull request
PRUrl(number) == <<"o", "/", "r", "/", "p", "u", "l", "l", "/", number>>

\* the outputs without the branch name
OutputsOf_noBranch(pr, branchName) ==
  [prUrl |-> PRUrl(pr.number), prNumber |-> pr.number, branchName |-> <<>>]

\* core.setOutput('pr-url', pr.url); core.setOutput('pr-number', pr.number);
\* core.setOutput('branch-name', branchName)
OutputsOf(pr, branchName) ==
  [prUrl |-> PRUrl(pr.number), prNumber |-> pr.number,
   branchName |-> branchName]

\* const pr = await createOrUpdatePR(inputs.targetRepo, inputs.githubToken,
\* branchName, inputs.packageName, cleanVersion, {...}) and the three
\* core.setOutput calls
RunCreateOrUpdatePR ==
  /\ pc = "createOrUpdatePR"
  /\ \E api \in {"ok", "listFails", "writeFails"} :
       LET r == createOrUpdatePR(run.remote, run.inputs.targetRepo, run.branch,
                                 run.inputs.packageName,
                                 PROptionsOf(nixData.value), api)
       IN  IF r.ok
             THEN /\ pc' = "done"
                  /\ run' = [run EXCEPT
                               !.remote = r.remote,
                               !.pr = r.value,
                               !.effects = run.effects \cup {r.call},
                               !.outputs = OutputsOf(r.value, run.branch)]
             ELSE Caught("createOrUpdatePR", r.class, {})
  /\ UNCHANGED <<content, updates, options, nixData, updated>>
  /\ UNCHANGED Unused

\* the workflow starts the action again for another release, with the
\* target repository and token it is configured with
RunAgain ==
  /\ pc \in {"done", "failed"}
  /\ run.runs < MaxRuns
  /\ \E p \in PackageNames, v \in InputVersions :
       run' = StartOfRun([run.raw EXCEPT !.packageName = p, !.version = v],
                         run.remote, run.runs + 1)
  /\ pc' = "parseInputs"
  /\ content' = <<>>
  /\ updates' = [version |-> <<>>, rev |-> <<>>, hash |-> <<>>]
  /\ options' = [skipRevUpdate |-> FALSE]
  /\ nixData' = NotRun
  /\ updated' = NotRun
  /\ UNCHANGED Unused

NextRun ==
  \/ RunParseInputs
  \/ RunCloneRepository
  \/ RunReadFile
  \/ RunParseNixFile
  \/ RunFetchHash
  \/ RunUpdateNixFile
  \/ RunCreateBranch
  \/ RunCommitAndPush
  \/ RunCreateOrUpdatePR
  \/ RunAgain

SpecRun == InitRun /\ [][NextRun]_vars

\* the string literals, empty ones included, that the first whole-token
\* assignment to name holds in s: a set with at most one element
FirstLiteral(s, name) ==
  LET n      == Len(name)
      starts == {i \in 1..(Len(s) - n) :
                   /\ SubSeq(s, i, i + n - 1) = name
                   /\ (i = 1 \/ ~IsWordChar(s[i - 1]))
                   /\ LET o == QuoteFrom(s, i + n) IN
                        /\ o # 0 /\ QuoteFrom(s, o + 1) # 0
                        /\ \E e \in (i + n)..(o - 1) :
                             /\ s[e] = "="
                             /\ \A k \in ((i + n)..(o - 1)) \ {e} : IsSpace(s[k])}
      first  == {i \in starts : \A j \in starts : i <= j}
  IN  {SubSeq(s, QuoteFrom(s, i + n) + 1,
              QuoteFrom(s, QuoteFrom(s, i + n) + 1) - 1) : i \in first}

\* the rev literal of s interpolates ${version}
Interpolates(s) ==
  \E a \in FirstAssignment(s, {n_rev}) :
    \E i \in 1..Len(ValueOf(s, a)) :
      OccursAt(ValueOf(s, a), i, <<"$","{">> \o n_version \o <<"}">>)

\* s without one leading v or V
WithoutPrefix(s) ==
  IF Len(s) >= 1 /\ s[1] \in {"v", "V"} THEN SubSeq(s, 2, Len(s)) ELSE s

(***************************************************************************)
(* C15: for an input version string s and a Nix file whose rev is a        *)
(* literal without interpolation, the file run writes holds version = s    *)
(* with one leading v or V removed and rev = s unchanged.                  *)
(***************************************************************************)
C15_VersionAndRevAsClaimed ==
  (run.started /\ "write" \in run.effects /\ ~Interpolates(content)) =>
     /\ FirstLiteral(updated.value, n_version) = {WithoutPrefix(run.inputs.version)}
     /\ FirstLiteral(updated.value, n_rev) = {run.inputs.version}

\* the branch of a package: chore/ and the package name with every
\* character outside letters, digits, _ and - replaced by -
BranchOf(p) ==
  <<"c","h","o","r","e","/">> \o
    [i \in 1..Len(p) |->
       IF p[i] \in Lower \cup Upper \cup Digit \cup {"_", "-"} THEN p[i] ELSE "-"]

(***************************************************************************)
(* C16: the branch name run uses depends only on the package name, never   *)
(* on the version: the branch handed to createBranch, commitAndPush and    *)
(* createOrUpdatePR and set as the branch-name output is chore/ followed   *)
(* by the sanitised package name, so a later run for the same package      *)
(* with another version meets the branch and pull request of the earlier   *)
(* one.                                                                    *)
(***************************************************************************)
C16_BranchName ==
  run.started =>
    /\ (pc \in {"commitAndPush", "createOrUpdatePR", "done"}
          => run.branch = BranchOf(run.inputs.packageName))
    /\ (pc = "done" =>
          /\ run.outputs.branchName = BranchOf(run.inputs.packageName)
          /\ \E p \in run.remote.prs :
               /\ p.number = run.pr.number
               /\ p.head = BranchOf(run.inputs.packageName))

\* a second run for a package whose name needs sanitising ended on the
\* pull request an earlier run had opened for it
C16_Witness ==
  /\ run.started /\ pc = "done" /\ run.runs = 2
  /\ ~run.pr.created
  /\ run.branch # <<"c","h","o","r","e","/">> \o run.inputs.packageName

\* the pull-request step of run ends well
PullRequestStep == pc = "createOrUpdatePR" /\ pc' = "done"

(***************************************************************************)
(* C17: createOrUpdatePR creates a pull request exactly when no open pull  *)
(* request exists for the head branch, and then returns created = true;    *)
(* when one exists it updates that pull request, never calls create, and   *)
(* returns created = false with the existing number (the URL goes with the *)
(* number); hence at most one open pull request per head branch exists     *)
(* after any sequence of runs.                                             *)
(***************************************************************************)
C17_OnePullRequest ==
  /\ [](run.started =>
          \A p, q \in run.remote.prs : p.head = q.head => p = q)
  /\ [][PullRequestStep =>
          LET before   == run.remote.prs
              after    == run'.remote.prs
              existing == {p \in before : p.head = run.branch}
          IN  /\ run'.pr.created <=> existing = {}
              /\ existing = {} =>
                   /\ "pulls.create" \in run'.effects
                   /\ "pulls.update" \notin run'.effects
                   /\ \E p \in after \ before :
                        /\ after = before \cup {p}
                        /\ p.head = run.branch
                        /\ p.number = run'.pr.number
                        /\ \A q \in before : q.number # p.number
              /\ existing # {} =>
                   /\ "pulls.update" \in run'.effects
                   /\ "pulls.create" \notin run'.effects
                   /\ \E q \in existing : q.number = run'.pr.number
                   /\ {[number |-> p.number, head |-> p.head] : p \in after}
                        = {[number |-> p.number, head |-> p.head] : p \in before}
     ]_vars

\* a later run updated the pull request an earlier run had created for the
\* branch, and returned its number
C17_Witness ==
  /\ run.started /\ pc = "done" /\ ~run.pr.created
  /\ "pulls.update" \in run.effects
  /\ run.remote.prs # {}
  /\ \A p \in run.remote.prs : p.number = run.pr.number /\ p.head = run.branch

\* some line of s holds a vendorHash assignment with no # before it
VendorHashLine(s) ==
  \E j \in 1..Len(s) :
    /\ VendorAssignmentAt(s, j)
    /\ \A k \in LineStartOf(s, j)..(j - 1) : s[k] # "#"

\* the body of the pull request the run ended on
BodyOfRun == UNION {p.body : p \in {q \in run.remote.prs : q.number = run.pr.number}}

Blank(s) == \A i \in 1..Len(s) : IsSpace(s[i])

\* the positions of the slashes of s
Slashes(s) == {i \in 1..Len(s) : s[i] = "/"}

\* the raw inputs are the ones parseInputs is to accept
ValidInputs(raw) ==
  /\ Cardinality(Slashes(raw.targetRepo)) = 1
  /\ \A i \in Slashes(raw.targetRepo) : i # 1 /\ i # Len(raw.targetRepo)
  /\ Slashes(raw.packageName) = {}
  /\ ~\E i \in 1..(Len(raw.packageName) - 1) :
        raw.packageName[i] = "." /\ raw.packageName[i + 1] = "."
  /\ ~Blank(raw.packageName)
  /\ ~Blank(raw.version)

\* parseInputs returned
InputsReturned == pc # "parseInputs" /\ run.failedAt # "parseInputs"

(***************************************************************************)
(* C19: parseInputs returns inputs only when target-repo splits on / into  *)
(* exactly two non-empty segments, returned as targetOwner and             *)
(* targetRepoName, the package name holds neither / nor .. and is not      *)
(* blank, and the version is not blank; in every other case it throws      *)
(* InputValidationError, and run then makes no clone, prefetch, file       *)
(* write, push or pull-request call.                                       *)
(***************************************************************************)
C19_InputsAsClaimed ==
  (run.started /\ pc # "parseInputs") =>
     /\ InputsReturned =>
          /\ ValidInputs(run.raw)
          /\ \A i \in Slashes(run.raw.targetRepo) :
               /\ run.inputs.targetOwner = SubSeq(run.raw.targetRepo, 1, i - 1)
               /\ run.inputs.targetRepoName =
                    SubSeq(run.raw.targetRepo, i + 1, Len(run.raw.targetRepo))
     /\ ~ValidInputs(run.raw) =>
          /\ pc = "failed" /\ run.failedAt = "parseInputs"
          /\ run.threw = "InputValidationError"
          /\ run.effects = {}

\* the failure message of the kind of step that failed
MessageOfStep(at) ==
  CASE at = "parseInputs" -> "Input validation error"
    [] at = "fetchHash" -> "Nix prefetch failed"
    [] at \in {"readFile", "parseNixFile"} -> "Failed to parse Nix file"
    [] at \in {"git clone", "git config", "git checkout -b", "git commit",
               "git push"} -> "Git operation failed"
    [] at = "createOrUpdatePR" -> "GitHub API error"

\* the steps whose kind of failure has a message
StepsWithMessage ==
  {"parseInputs", "fetchHash", "readFile", "parseNixFile", "git clone",
   "git config", "git checkout -b", "git commit", "git push",
   "createOrUpdatePR"}

(***************************************************************************)
(* C20: every failure inside run is reported through the failure message   *)
(* of the kind of step that failed: input validation as 'Input validation  *)
(* error', the hash fetch as 'Nix prefetch failed', a Nix-file failure as  *)
(* 'Failed to parse Nix file', a failing git command of clone, branch or   *)
(* commit-and-push as 'Git operation failed', a pull-request failure as    *)
(* 'GitHub API error'; never with another kind's message or as an          *)
(* unexpected error.                                                       *)
(***************************************************************************)
C20_FailureKindAsClaimed ==
  (run.started /\ pc = "failed" /\ run.failedAt \in StepsWithMessage) =>
     run.failed = MessageOfStep(run.failedAt)

(***************************************************************************)
(* C21: when parseNixFile fails inside run because a required field is     *)
(* missing or the owner or repo is invalid, the error is a                 *)
(* NixFileParseError and the action fails with 'Failed to parse Nix file:  *)
(* ... Check file format.', naming the failing field or identifier kind.   *)
(***************************************************************************)
C21_ParseFailureAsClaimed ==
  (run.started /\ pc = "failed" /\ run.failedAt = "parseNixFile") =>
     /\ run.threw = "NixFileParseError"
     /\ run.failed = "Failed to parse Nix file"
     /\ \/ \E f \in Absent(content) : parsed.error.what = ErrorName(f)
        \/ /\ parsed.error.what = "owner"
           /\ Present(content, "owner")
           /\ ~OwnerGrammar(FieldValue(content, "owner"))
        \/ /\ parsed.error.what = "repo"
           /\ Present(content, "repo")
           /\ ~RepoGrammar(FieldValue(content, "repo"))

(***************************************************************************)
(* C22: every call of createBranch first fetches the branch from origin    *)
(* and tries to check it out, then does exactly one of two things: when    *)
(* the checkout succeeded it resets hard to origin/main and creates no     *)
(* branch; when it failed it creates the branch with checkout -b and makes *)
(* no reset, and a failure of the creation is a GitOperationError.         *)
(***************************************************************************)
C22_CreateBranch ==
  (run.started /\ run.git # <<>>) =>
     /\ Len(run.git) = 3
     /\ run.git[1] = "fetch origin"
     /\ run.git[2] = "checkout"
     /\ run.git[3] = (IF run.branchReused THEN "reset --hard origin/main"
                                          ELSE "checkout -b")
     /\ (pc = "failed" /\ run.failedAt = "git checkout -b") =>
          /\ ~run.branchReused
          /\ run.threw = "GitOperationError"
          /\ run.branch = formatBranchName(run.inputs.packageName)

\* an existing branch was checked out and reset, and no branch was made
C22_Witness ==
  /\ run.started /\ pc = "commitAndPush" /\ run.branchReused
  /\ run.git = <<"fetch origin", "checkout", "reset --hard origin/main">>

(***************************************************************************)
(* fetchHash (nix-prefetch.ts, src/unnamed/part_005)                       *)
(***************************************************************************)
\* JSON.parse, for texts without escapes, signs, fractions and exponents
\* and with scalar array elements and member values: the tokens of s from
\* position i; a token of kind "bad" ends them where no token starts
JSONToken(k, v) == [k |-> k, v |-> v]

RECURSIVE JSONTokens(_, _)
JSONTokens(s, i) ==
  LET j == SkipSpaces(s, i) IN
  IF j > Len(s) THEN <<>>
  ELSE IF s[j] \in {"{", "}", "[", "]", ":", ","}
    THEN <<JSONToken(s[j], <<>>)>> \o JSONTokens(s, j + 1)
  ELSE IF s[j] = "\""
    THEN LET e == NextQuote(s, j + 1) IN
         IF e = 0 \/ \E k \in (j + 1)..(e - 1) : s[k] \in {"\\", "\n", "\r", "\t"}
           THEN <<JSONToken("bad", <<>>)>>
           ELSE <<JSONToken("string", SubSeq(s, j + 1, e - 1))>>
                  \o JSONTokens(s, e + 1)
  ELSE IF HasAt(s, j, <<"n","u","l","l">>)
    THEN <<JSONToken("null", <<>>)>> \o JSONTokens(s, j + 4)
  ELSE IF HasAt(s, j, <<"t","r","u","e">>)
    THEN <<JSONToken("boolean", <<>>)>> \o JSONTokens(s, j + 4)
  ELSE IF HasAt(s, j, <<"f","a","l","s","e">>)
    THEN <<JSONToken("boolean", <<>>)>> \o JSONTokens(s, j + 5)
  ELSE IF s[j] \in Digit
    THEN LET rest == {k \in j..Len(s) : s[k] \notin Digit}
             e    == IF rest = {} THEN Len(s) + 1
                     ELSE CHOOSE k \in rest : \A l \in rest : k <= l
         IN  IF s[j] = "0" /\ e > j + 1
               THEN <<JSONToken("bad", <<>>)>>
               ELSE <<JSONToken("number", SubSeq(s, j, e - 1))>>
                      \o JSONTokens(s, e)
  ELSE <<JSONToken("bad", <<>>)>>

JSONScalars == {"string", "number", "boolean", "null"}

\* JSON.parse(s): [t |-> "error"] stands for the SyntaxError it throws
JSONParse(s) ==
  LET toks == JSONTokens(s, 1)
      n    == Len(toks)
  IN
  IF n = 0 \/ \E m \in 1..n : toks[m].k = "bad" THEN [t |-> "error"]
  ELSE IF n = 1 /\ toks[1].k \in JSONScalars
    THEN [t |-> toks[1].k, v |-> toks[1].v]
  ELSE IF /\ n >= 2 /\ toks[1].k = "[" /\ toks[n].k = "]"
          /\ (n = 2 \/ (n % 2 = 1 /\ \A m \in 2..(n - 1) :
                          IF m % 2 = 0 THEN toks[m].k \in JSONScalars
                                       ELSE toks[m].k = ","))
    THEN [t |-> "array"]
  ELSE IF /\ n >= 2 /\ toks[1].k = "{" /\ toks[n].k = "}"
          /\ (n = 2 \/ (n % 4 = 1 /\ \A m \in 2..(n - 1) :
                          CASE m % 4 = 2 -> toks[m].k = "string"
                            [] m % 4 = 3 -> toks[m].k = ":"
                            [] m % 4 = 0 -> toks[m].k \in JSONScalars
                            [] OTHER     -> toks[m].k = ","))
    THEN [t |-> "object",
          members |-> [m \in 1..((n - 1) \div 4) |->
                         [key |-> toks[4 * m - 2].v, value |-> toks[4 * m]]]]
  ELSE [t |-> "error"]

n_hashKey == <<"h","a","s","h">>

\* the value of the property hash of a parsed value (the last member of
\* that name of an object), of kind "undefined" when it has none
HashMember(json) ==
  LET members == IF json.t = "object" THEN json.members ELSE <<>>
      at      == {m \in 1..Len(members) : members[m].key = n_hashKey}
  IN  IF at = {} THEN JSONToken("undefined", <<>>)
      ELSE members[CHOOSE m \in at : \A l \in at : l <= m].value

LowerSeq == <<"a","b","c","d","e","f","g","h","i","j","k","l","m",
             "n","o","p","q","r","s","t","u","v","w","x","y","z">>
UpperSeq == <<"A","B","C","D","E","F","G","H","I","J","K","L","M",
             "N","O","P","Q","R","S","T","U","V","W","X","Y","Z">>

\* /already.?installed/i.test(s)
AlreadyInstalled(s) ==
  LET LowerOf(c) == IF c \in Upper
                      THEN LowerSeq[CHOOSE k \in 1..26 : UpperSeq[k] = c]
                      ELSE c
      low == [i \in 1..Len(s) |-> LowerOf(s[i])]
  IN  \E i \in 1..Len(s) :
        /\ HasAt(low, i, <<"a","l","r","e","a","d","y">>)
        /\ \/ HasAt(low, i + 7, <<"i","n","s","t","a","l","l","e","d">>)
           \/ /\ i + 7 <= Len(s) /\ s[i + 7] \notin {"\n", "\r"}
              /\ HasAt(low, i + 8, <<"i","n","s","t","a","l","l","e","d">>)

\* fetchHash that takes an empty hash for a value
fetchHash_emptyAccepted(installExitCode, installStderr, exitCode, stdout) ==
  LET warned == installExitCode # 0 /\ ~AlreadyInstalled(installStderr)
      json   == JSONParse(stdout)
  IN
  IF exitCode # 0
    THEN [ok |-> FALSE, class |-> "Error", warned |-> warned,
          message |-> "nix-prefetch-github failed with exit code"] ELSE
  IF json.t = "error"
    THEN [ok |-> FALSE, class |-> "Error", warned |-> warned,
          message |-> "Failed to parse nix-prefetch-github output"] ELSE
  IF \/ json.t \notin {"object", "array", "null"}
     \/ json.t = "null"
     \/ HashMember(json).k = "undefined"
     \/ HashMember(json).k # "string"
    THEN [ok |-> FALSE, class |-> "Error", warned |-> warned,
          message |-> "nix-prefetch-github did not return a hash"] ELSE
  [ok |-> TRUE, value |-> HashMember(json).v, warned |-> warned]

\* fetchHash(owner, repo, rev), for what its two commands do: the exit code
\* and stderr of nix profile add, the exit code and stdout of
\* nix-prefetch-github
fetchHash(installExitCode, installStderr, exitCode, stdout) ==
  LET warned == installExitCode # 0 /\ ~AlreadyInstalled(installStderr)
      json   == JSONParse(stdout)
  IN
  IF exitCode # 0
    THEN [ok |-> FALSE, class |-> "Error", warned |-> warned,
          message |-> "nix-prefetch-github failed with exit code"] ELSE
  IF json.t = "error"
    THEN [ok |-> FALSE, class |-> "Error", warned |-> warned,
          message |-> "Failed to parse nix-prefetch-github output"] ELSE
  IF \/ json.t \notin {"object", "array", "null"}
     \/ json.t = "null"
     \/ HashMember(json).k = "undefined"
     \/ HashMember(json).k # "string"
     \/ HashMember(json).v = <<>>
    THEN [ok |-> FALSE, class |-> "Error", warned |-> warned,
          message |-> "nix-prefetch-github did not return a hash"] ELSE
  [ok |-> TRUE, value |-> HashMember(json).v, warned |-> warned]

\* what nix-prefetch-github may print, each text with the non-empty string
\* that a reader of JSON finds as its hash member (<<>> when it is not a
\* JSON object or has no such member)
StdoutCases == <<
  <<<<"{","\"","h","a","s","h","\"",":","\"","s","h","a","2","5","6","-","A","\"","}">>,
    <<"s","h","a","2","5","6","-","A">>>>,
  <<<<"{","\n"," "," ","\"","o","w","n","e","r","\"",":"," ","\"","o","\"",",","\n"," "," ","\"","h","a","s","h","\"",":"," ","\"","s","h","a","2","5","6","-","A","\"","\n","}","\n">>,
    <<"s","h","a","2","5","6","-","A">>>>,
  <<<<>>,
    <<>>>>,
  <<<<"n","o","t"," ","j","s","o","n">>,
    <<>>>>,
  <<<<"n","u","l","l">>,
    <<>>>>,
  <<<<"\"","s","h","a","2","5","6","-","A","\"">>,
    <<>>>>,
  <<<<"[","]">>,
    <<>>>>,
  <<<<"[","\"","h","a","s","h","\"","]">>,
    <<>>>>,
  <<<<"{","}">>,
    <<>>>>,
  <<<<"{","\"","h","a","s","h","\"",":","\"","\"","}">>,
    <<>>>>,
  <<<<"{","\"","h","a","s","h","\"",":","n","u","l","l","}">>,
    <<>>>>,
  <<<<"{","\"","h","a","s","h","\"",":","1","}">>,
    <<>>>>,
  <<<<"{","\"","h","a","s","h","\"",":","t","r","u","e","}">>,
    <<>>>>,
  <<<<"{","\"","H","a","s","h","\"",":","\"","x","\"","}">>,
    <<>>>>,
  <<<<"{","\"","s","h","a","2","5","6","\"",":","\"","x","\"","}">>,
    <<>>>>,
  <<<<"{","\"","h","a","s","h","\"",":","\"","x","\"">>,
    <<>>>>,
  <<<<"{","\"","h","a","s","h","\"",":","\"","x","\"","}"," ","t">>,
    <<>>>>,
  <<<<" ","{","\"","h","a","s","h","\""," ",":"," ","\"","x","\""," ","}"," ">>,
    <<"x">>>>,
  <<<<"{","\"","h","a","s","h","\"",":","\"","x","\"",",","}">>,
    <<>>>>,
  <<<<"{","h","a","s","h",":","\"","x","\"","}">>,
    <<>>>>,
  <<<<"{","'","h","a","s","h","'",":","'","x","'","}">>,
    <<>>>>,
  <<<<"1","2">>,
    <<>>>>,
  <<<<"t","r","u","e">>,
    <<>>>>,
  <<<<"{","\"","a","\"",":","1",",","\"","h","a","s","h","\"",":","\"","x","\"",",","\"","b","\"",":","n","u","l","l","}">>,
    <<"x">>>>,
  <<<<"s","h","a","2","5","6","-","A">>,
    <<>>>>,
  <<<<"{","\"","h","a","s","h","\"",":","\""," ","\"","}">>,
    <<" ">>>> >>

InstallStderrs == {<<>>, <<"w","a","r","n","i","n","g",":"," ","a","l","r","e","a","d","y"," ","i","n","s","t","a","l","l","e","d">>, <<"e","r","r","o","r",":"," ","x">>}
ExitCodes == {0, 1, 128}

InitFetch ==
  /\ pc = "fetchHash"
  /\ \E i \in {0, 1}, e \in InstallStderrs, x \in ExitCodes,
        c \in 1..Len(StdoutCases) :
       prefetch = [called |-> FALSE, installExitCode |-> i, installStderr |-> e,
                   exitCode |-> x, case |-> c, stdout |-> StdoutCases[c][1]]
  /\ content = <<>>
  /\ updates = [version |-> <<>>, rev |-> <<>>, hash |-> <<>>]
  /\ options = [skipRevUpdate |-> FALSE]
  /\ nixData = NotRun
  /\ updated = NotRun
  /\ reparsed = NotRun
  /\ updatedTwice = NotRun
  /\ ident = <<>>
  /\ identResult = NotRun
  /\ run = NoRun

\* newHash = await fetchHash(owner, repo, rev)
FetchHash ==
  /\ pc = "fetchHash"
  /\ prefetch' = [called |-> TRUE,
                  installExitCode |-> prefetch.installExitCode,
                  installStderr |-> prefetch.installStderr,
                  exitCode |-> prefetch.exitCode, case |-> prefetch.case,
                  stdout |-> prefetch.stdout,
                  result |-> fetchHash(prefetch.installExitCode,
                                       prefetch.installStderr,
                                       prefetch.exitCode, prefetch.stdout)]
  /\ pc' = "fetched"
  /\ UNCHANGED <<content, updates, options, nixData, updated, reparsed,
                 updatedTwice, ident, identResult, run>>

NextFetch == FetchHash

SpecFetch == InitFetch /\ [][NextFetch]_vars

(***************************************************************************)
(* C23: fetchHash returns a value only when nix-prefetch-github exits with *)
(* code 0 and its stdout is a JSON object whose hash member is a non-empty *)
(* string, and the value is exactly that string; in every other case it    *)
(* throws; a non-zero exit of the install command before it never by       *)
(* itself makes fetchHash fail.                                            *)
(***************************************************************************)
C23_FetchHash ==
  prefetch.called =>
     LET hash == StdoutCases[prefetch.case][2] IN
     /\ prefetch.result.ok <=> (prefetch.exitCode = 0 /\ hash # <<>>)
     /\ prefetch.result.ok => prefetch.result.value = hash
     /\ ~prefetch.result.ok => prefetch.result.class = "Error"

\* the install command failed with something else than already installed,
\* and the hash of a pretty-printed object was returned
C23_Witness ==
  /\ prefetch.called /\ prefetch.result.ok /\ prefetch.result.warned
  /\ prefetch.installExitCode # 0
  /\ prefetch.case = 2

\* the calls of run that act on the world, in the order of the steps
StepOrder == <<"clone", "prefetch", "write", "branch", "commit", "push">>
PullRequestCalls == {"pulls.create", "pulls.update"}

\* the calls made up to and including the step that failed
CallsUntil(at) ==
  CASE at \in {"parseInputs", "mkdirP"} -> {}
    [] at \in {"git clone", "git config", "readFile", "parseNixFile"} -> {"clone"}
    [] at \in {"fetchHash", "writeFile"} -> {"clone", "prefetch"}
    [] at = "git checkout -b" -> {"clone", "prefetch", "write"}
    [] at = "git commit" -> {"clone", "prefetch", "write", "branch"}
    [] at = "git push" -> {"clone", "prefetch", "write", "branch", "commit"}
    [] at = "createOrUpdatePR" ->
         {"clone", "prefetch", "write", "branch", "commit", "push"}

(***************************************************************************)
(* C24: in every execution of run the steps happen in the order validate   *)
(* inputs, clone, read and parse, fetch hash, write, create or reuse the   *)
(* branch, commit and push, create or update the pull request, and a       *)
(* failure of a step prevents every later one: the file is never written   *)
(* when parsing or the hash fetch failed, nothing is pushed unless the     *)
(* file was written, no pull request is created or updated unless the push *)
(* succeeded.                                                              *)
(***************************************************************************)
C24_StepOrder ==
  run.started =>
    /\ \A k \in 1..Len(StepOrder) :
         StepOrder[k] \in run.effects =>
           \A j \in 1..(k - 1) : StepOrder[j] \in run.effects
    /\ run.effects \cap PullRequestCalls # {} => "push" \in run.effects
    /\ "clone" \in run.effects => ValidInputs(run.raw)
    /\ "prefetch" \in run.effects => nixData.done /\ parsed.ok
    /\ "write" \in run.effects =>
         /\ nixData.done /\ parsed.ok
         /\ run.newHash # <<>>
         /\ updated.done
    /\ "push" \in run.effects => run.committed # <<>>
    /\ pc = "failed" => run.effects = CallsUntil(run.failedAt)

\* the push failed after the file was written and committed, and no pull
\* request call was made
C24_Witness ==
  /\ run.started /\ pc = "failed" /\ run.failedAt = "git push"
  /\ "write" \in run.effects /\ "commit" \in run.effects
  /\ "push" \notin run.effects
  /\ run.effects \cap PullRequestCalls = {}

(***************************************************************************)
(* C25: every execution of run ends in exactly one of two outcomes: the    *)
(* outputs pr-url, pr-number and branch-name are all set and setFailed is  *)
(* never called, or setFailed is called exactly once and no output is set; *)
(* run never rejects, every error being caught.                            *)
(***************************************************************************)
C25_Outcome ==
  run.started =>
    /\ pc = "done" =>
         /\ run.outputs.prUrl # <<>>
         /\ run.outputs.prNumber # 0
         /\ run.outputs.branchName # <<>>
         /\ run.setFailed = 0 /\ run.failed = ""
    /\ pc = "failed" =>
         /\ run.outputs = NoOutputs
         /\ run.setFailed = 1 /\ run.failed # ""
    /\ pc \notin {"done", "failed"} =>
         run.outputs = NoOutputs /\ run.setFailed = 0
    /\ run.threw # "" => pc = "failed"

\* a run ended with its three outputs set and no failure reported
C25_Witness ==
  /\ run.started /\ pc = "done"
  /\ run.outputs.prNumber = run.pr.number
  /\ run.outputs.branchName = run.branch
  /\ run.setFailed = 0

(***************************************************************************)
(* C26: at the moment commitAndPush stages and commits, the Nix file in    *)
(* the working tree holds the updated content that run wrote before        *)
(* createBranch, on both paths of createBranch (branch created, existing   *)
(* branch checked out and reset hard to origin/main), so the commit that   *)
(* is pushed holds the version bump.                                       *)
(***************************************************************************)
C26_WorktreeAsClaimed ==
  run.started =>
    /\ pc = "commitAndPush" => run.worktree = updated.value
    /\ "commit" \in run.effects => run.committed = updated.value

\* the rev literal lit with its reference ${version} replaced by v (the
\* literals of the files hold at most one reference)
Expand(lit, v) ==
  LET ref == <<"$","{">> \o n_version \o <<"}">>
      at  == {i \in 1..Len(lit) : OccursAt(lit, i, ref)}
  IN  IF at = {} THEN lit
      ELSE LET i == CHOOSE k \in at : \A l \in at : k <= l
           IN  SubSeq(lit, 1, i - 1) \o v \o SubSeq(lit, i + Len(ref), Len(lit))

(***************************************************************************)
(* C27: the hash run writes was fetched for the revision the updated file  *)
(* refers to: when rev is rewritten that is the input version string, and  *)
(* when rev is left alone because it interpolates ${version}, the rev      *)
(* literal with ${version} replaced by the newly written, prefix-stripped  *)
(* version equals the revision handed to fetchHash, for inputs with and    *)
(* without a leading v.                                                    *)
(***************************************************************************)
C27_HashForRevAsClaimed ==
  (run.started /\ "write" \in run.effects) =>
     IF Interpolates(content)
       THEN run.fetched = Expand(FieldValue(content, "rev"),
                                 WithoutPrefix(run.inputs.version))
       ELSE run.fetched = run.inputs.version

(***************************************************************************)
(* C28: two different package names that parseInputs accepts never map to  *)
(* the same branch name under formatBranchName, so a run for one package   *)
(* never pushes over the branch or updates the pull request of another.    *)
(***************************************************************************)
C28_BranchPerPackageAsClaimed ==
  [][PullRequestStep =>
       \A p \in run.remote.prs :
         p.head = formatBranchName(run.inputs.packageName)
           => p.package = run.inputs.packageName]_vars

\* the name, hash or sha256, of the assignment a of s
HashNameAt(s, a) ==
  IF OccursAt(s, a.at, n_sha256) THEN n_sha256 ELSE n_hash

(***************************************************************************)
(* C29: for a text that holds both a whole-token hash assignment and a     *)
(* whole-token sha256 assignment, in either order, the assignment whose    *)
(* value updateNixFile rewrites is the one whose value parseNixFile        *)
(* returns as hash.                                                        *)
(***************************************************************************)
C29_SameAssignmentAsClaimed ==
  (/\ pc \in {"reparse", "updateAgain", "done"}
   /\ updated.done /\ nixData.done /\ parsed.ok
   /\ Assignments(content, n_hash) # {}
   /\ Assignments(content, n_sha256) # {}) =>
     \A a \in FirstAssignment(content, {n_hash, n_sha256}) :
       LET read  == HashNameAt(content, a)
           other == IF read = n_hash THEN n_sha256 ELSE n_hash
       IN  /\ parsed.hash = ValueOf(content, a)
           /\ FirstLiteral(updated.value, read)
                # FirstLiteral(updated.afterRev, read)
           /\ FirstLiteral(updated.value, other)
                = FirstLiteral(updated.afterRev, other)

(***************************************************************************)
(* C30: for every version input that parseInputs accepts and every file    *)
(* that parseNixFile accepts, the content that run writes parses again     *)
(* with parseNixFile, and its version is the prefix-stripped input         *)
(* version, which is not empty.                                            *)
(***************************************************************************)
C30_WrittenFileParsesAsClaimed ==
  (run.started /\ "write" \in run.effects) =>
    LET again == parseNixFile(updated.value)
    IN  /\ again.ok
        /\ stripVersionPrefix(run.inputs.version) # <<>>
        /\ again.version = stripVersionPrefix(run.inputs.version)

====
